---- MODULE Spec2Model ----
(***************************************************************************)
(* Model of the Instagram automation engine (src/instMulti):               *)
(*   - SessionManager (browser_manager.py): the per-account session gate   *)
(*   - InstagramAutomation (automation_engine.py): account orchestrator    *)
(*     (run_account_automation) and chain runner (execute_action_chain)    *)
(*   - MultiWorkerManager (automation_engine.py): the worker pool          *)
(*   - ChainBuilderWidget (gui.py): authoring of the action chain          *)
(*                                                                         *)
(* The specifications share the variables:                                 *)
(*   GateSpec    concurrent callers of one SessionManager                  *)
(*   EngineSpec  one InstagramAutomation running one account, with its     *)
(*               own stop() / pause() / resume() called from outside       *)
(*   ChainSpec   one InstagramAutomation running chains of every action    *)
(*               type on one target                                        *)
(*   Spec        a MultiWorkerManager run with its workers and the         *)
(*               manager's stop / pause / resume controls                  *)
(*   AuthorSpec  the operations of the chain builder on its chain          *)
(*   RestartSpec a MultiWorkerManager on which start_automation is called  *)
(*               again during a run                                        *)
(*   DistSpec    _distribute_accounts applied to an account list           *)
(*   DelaySpec   calculate_action_delay applied to a configured range      *)
(*   StatusSpec  check_profile_status applied to a loaded page             *)
(*   StorySpec   view_stories applied to a profile page                    *)
(*   LikeSpec    like_recent_posts applied to a profile page               *)
(***************************************************************************)
EXTENDS Integers, Sequences, FiniteSets, TLC

\* ------------------------------------------------------------------ bounds
MaxWorkers == 2
MaxAccounts == 2
MaxTargets == 2
MaxPoolTargets == 1
MaxChain == 2
NumCallers == 2
MaxLog == 3

Workers == 1..MaxWorkers
Callers == 1..NumCallers
Users == {"u1", "u2"}
\* an account of the configuration: the dict with its username and password
Passwords == {"a", "b"}
Account(u, p) == [username |-> u, password |-> p]
Accounts == {Account(u, p) : u \in Users, p \in Passwords}
Handles == {"t1", "t2"}
\* a lease record is the set holding its session id; no record: the empty set
NoLease == {}
\* the text of a control on a page, as the sequence of its parts; a page
\* without the control: the empty text
NoControl == <<>>
\* action_delays['between_actions'] as config.py ships it
DefaultBetweenActions == <<5, 15>>
\* config['texts'] (load_texts: both lists are empty until texts are saved):
\* a configuration with a text of each kind, and those with an empty list
Texts(story_replies, direct_messages) ==
    [story_replies |-> story_replies, direct_messages |-> direct_messages]
SomeTexts == Texts(<<"r1">>, <<"m1">>)
TextConfigs == {Texts(r, m) : r \in {<<>>, <<"r1">>}, m \in {<<>>, <<"m1">>}}

VARIABLES
    \* configuration handed to start_automation / run_account_automation
    accounts, workers_count, targets, action_chain,
    \* action_delays['between_actions'] of the engine's configuration
    between_actions,
    \* config['texts']: the story replies and the direct messages to pick from
    texts,
    \* ChainBuilderWidget: the view_stories_count each add_like_stories_action
    \* call read before it opened its dialog and is waiting in wait_window
    like_dialog,
    \* MultiWorkerManager: flags and the chunks _run_automation_async hands out
    mgr_running, mgr_paused, account_chunks,
    \* MultiWorkerManager: where the thread of each run it started is
    \* ("none": not started, "thread": thread started, "gather": awaiting its
    \* workers, "closed": ended)
    run_pc,
    \* one InstagramAutomation (and its browser manager) per worker:
    \* position, flags, statistics, session manager
    pc, ret, tgt_idx, auto_running, auto_paused, stats, active_sessions,
    \* locals of _worker_process / run_account_automation
    acct_idx, context, page, login_success, active_contexts, shuffled_targets,
    chain_calls,
    \* the status_callback invocations since the current account run began,
    \* in order
    status_log,
    \* the per-target statistics entries save_target_statistics recorded
    \* during the current account run
    target_stats,
    \* locals of execute_action_chain
    step_idx, nav_attempt, profile_loaded, recovery_success, blocked, chain_local,
    has_stories,
    \* story frames viewed / story likes performed on the current target
    stories_viewed, stories_liked,
    \* the follow control the target's page shows, and the controls the
    \* follow steps of the current chain run clicked
    page_follow, follow_clicks,
    \* which part of the last dispatched step raised, and the chain positions
    \* of the steps dispatched in the current chain run, in order
    step_raised, dispatch_log,
    \* what the executor of the dispatched step returned and added to the
    \* counters itself, until the step loop has counted the step
    action_result,
    \* what the running executor has added to the counters so far
    own_counted,
    \* number of steps handed to execute_single_action so far
    dispatched_total,
    \* the accounts worker w handed to run_account_automation so far, in order
    handed,
    \* the last call of calculate_action_delay: its inputs and what it returned
    delay_args, delay_result,
    \* the last call of check_profile_status: the page it read and the status
    \* it returned
    status_args, status_result,
    \* the last call of view_stories: its count and page, and what it did
    story_args, story_result,
    \* the last call of like_recent_posts: its count and page, the posts it
    \* has gone through, and what it did
    like_args, like_i, like_result,
    \* SessionManager callers (GateSpec)
    lock, gate_pc, gate_op, gate_arg, gate_log

cfgVars == <<accounts, workers_count, targets, action_chain, between_actions,
            texts, like_dialog>>
mgrVars == <<mgr_running, mgr_paused, account_chunks, run_pc>>
flagVars == <<auto_running, auto_paused>>
acctLocals == <<acct_idx, context, page, login_success, active_contexts,
                shuffled_targets, chain_calls, status_log>>
acctVars == <<acctLocals, target_stats>>
stepObs == <<page_follow, follow_clicks, step_raised, dispatch_log, action_result,
            own_counted>>
chainVars == <<step_idx, nav_attempt, profile_loaded, recovery_success, blocked,
               chain_local, has_stories,
               stories_viewed, stories_liked, stepObs>>
delayVars == <<delay_args, delay_result>>
statusVars == <<status_args, status_result>>
\* the calls of the leaf operations that are checked on their own
storyVars == <<story_args, story_result>>
likeVars == <<like_args, like_i, like_result>>
leafVars == <<delayVars, statusVars, storyVars, likeVars>>
gateVars == <<lock, gate_pc, gate_op, gate_arg, gate_log>>
engineVars == <<pc, ret, tgt_idx, flagVars, stats, acctVars, chainVars, dispatched_total, handed>>
vars == <<cfgVars, leafVars, mgrVars, engineVars, active_sessions, gateVars>>

\* ---------------------------------------------------------------- helpers
Range(s) == {s[i] : i \in 1..Len(s)}

SeqsUpTo(S, n) == UNION {[1..k -> S] : k \in 0..n}

\* random.shuffle: every permutation of the list is a possible result
Shuffles(s) ==
    LET n == Len(s)
        Bij == {f \in [1..n -> 1..n] : \A i, j \in 1..n : f[i] = f[j] => i = j}
    IN  {[i \in 1..n |-> s[f[i]]] : f \in Bij}

\* ------------------------------------------------- SessionManager (gate)
\* active_sessions[m] maps a username to its lease record; NoLease stands
\* for "key absent".  The lease record's session_id (a fresh uuid4) is
\* represented by the identity of the call that created it.

\* acquire_session: the value returned
acquire_no_check(sessions, u) == TRUE
acquire_result(sessions, u) == sessions[u] = NoLease

\* acquire_session: the lease map afterwards
acquire_session(sessions, u, id) ==
    IF acquire_result(sessions, u) THEN [sessions EXCEPT ![u] = {id}] ELSE sessions

\* release_session: whether it raises (the key is tested before the del)
release_raises(sessions, u) == FALSE

\* release_session: the lease map afterwards
release_all(sessions, u) == [x \in Users |-> NoLease]
release_session(sessions, u) ==
    IF sessions[u] # NoLease THEN [sessions EXCEPT ![u] = NoLease] ELSE sessions

\* A caller invokes acquire_session / release_session on SessionManager 1.
GateCall(c) ==
    /\ gate_pc[c] = "idle"
    /\ Len(gate_log) < MaxLog
    /\ \E op \in {"acquire", "release"}, u \in Users :
         /\ gate_op' = [gate_op EXCEPT ![c] = op]
         /\ gate_arg' = [gate_arg EXCEPT ![c] = [u |-> u, start |-> Len(gate_log)]]
    /\ gate_pc' = [gate_pc EXCEPT ![c] = "wait_lock"]
    /\ UNCHANGED <<lock, gate_log, active_sessions>>

\* async with self._lock: entering suspends while another caller holds it
GateLock(c) ==
    /\ gate_pc[c] = "wait_lock"
    /\ lock[1] = 0
    /\ lock' = [lock EXCEPT ![1] = c]
    /\ gate_pc' = [gate_pc EXCEPT ![c] = "locked"]
    /\ UNCHANGED <<gate_op, gate_arg, gate_log, active_sessions>>

\* the body under the lock (no suspension point inside) and the unlock
GateBody(c) ==
    /\ gate_pc[c] = "locked"
    /\ lock[1] = c
    /\ LET u == gate_arg[c].u
           st == gate_arg[c].start
           s == active_sessions[1]
       IN  IF gate_op[c] = "acquire"
           THEN /\ active_sessions' =
                     [active_sessions EXCEPT ![1] = acquire_session(s, u, c)]
                /\ gate_log' = Append(gate_log,
                     [op |-> "acquire", u |-> u, by |-> c, start |-> st,
                      result |-> acquire_result(s, u), before |-> s])
           ELSE /\ active_sessions' =
                     [active_sessions EXCEPT ![1] = release_session(s, u)]
                /\ gate_log' = Append(gate_log,
                     [op |-> "release", u |-> u, by |-> c, start |-> st,
                      result |-> ~release_raises(s, u), before |-> s])
    /\ lock' = [lock EXCEPT ![1] = 0]
    /\ gate_pc' = [gate_pc EXCEPT ![c] = "idle"]
    /\ gate_op' = [gate_op EXCEPT ![c] = "acquire"]
    /\ gate_arg' = [gate_arg EXCEPT ![c] = [u |-> "u1", start |-> 0]]

\* the state of freshly constructed objects: InstagramAutomation.__init__,
\* BaseBrowserManager.__init__, SessionManager.__init__, no task started
Constructed ==
    /\ pc = [w \in Workers |-> "none"]
    /\ ret = [w \in Workers |-> "none"]
    /\ tgt_idx = [w \in Workers |-> 1]
    /\ auto_running = [w \in Workers |-> FALSE]
    /\ auto_paused = [w \in Workers |-> FALSE]
    /\ stats = [w \in Workers |->
                 [total_actions |-> 0, successful_actions |-> 0,
                  failed_actions |-> 0, accounts_processed |-> 0, errors |-> 0]]
    /\ active_sessions = [w \in Workers |-> [u \in Users |-> NoLease]]
    /\ acct_idx = [w \in Workers |-> 1]
    /\ context = [w \in Workers |-> FALSE]
    /\ page = [w \in Workers |-> FALSE]
    /\ login_success = [w \in Workers |-> FALSE]
    /\ active_contexts = [w \in Workers |-> {}]
    /\ shuffled_targets = [w \in Workers |-> <<>>]
    /\ chain_calls = [w \in Workers |-> <<>>]
    /\ status_log = [w \in Workers |-> <<>>]
    /\ target_stats = [w \in Workers |-> <<>>]
    /\ step_idx = [w \in Workers |-> 1]
    /\ nav_attempt = [w \in Workers |-> 0]
    /\ profile_loaded = [w \in Workers |-> FALSE]
    /\ recovery_success = [w \in Workers |-> FALSE]
    /\ blocked = [w \in Workers |-> FALSE]
    /\ stories_viewed = [w \in Workers |-> 0]
    /\ stories_liked = [w \in Workers |-> 0]
    /\ page_follow = [w \in Workers |-> NoControl]
    /\ follow_clicks = [w \in Workers |-> <<>>]
    /\ step_raised = [w \in Workers |-> "none"]
    /\ dispatch_log = [w \in Workers |-> <<>>]
    /\ action_result = [w \in Workers |->
          [success |-> FALSE, d_succ |-> 0, d_fail |-> 0, d_total |-> 0,
           views |-> 0, likes |-> 0]]
    /\ own_counted = [w \in Workers |-> [succ |-> 0, fail |-> 0]]
    /\ delay_args = <<>>
    /\ delay_result = <<>>
    /\ status_args = <<>>
    /\ status_result = <<>>
    /\ story_args = <<>>
    /\ story_result = <<>>
    /\ like_args = <<>>
    /\ like_i = 0
    /\ like_result = <<>>
    /\ chain_local = [w \in Workers |-> [successful |-> 0, failed |-> 0, dispatched |-> 0]]
    /\ has_stories = [w \in Workers |-> FALSE]
    /\ dispatched_total = [w \in Workers |-> 0]
    /\ handed = [w \in Workers |-> <<>>]
    /\ lock = [w \in Workers |-> 0]
    /\ gate_pc = [c \in Callers |-> "idle"]
    /\ gate_op = [c \in Callers |-> "acquire"]
    /\ gate_arg = [c \in Callers |-> [u |-> "u1", start |-> 0]]
    /\ gate_log = <<>>

\* MultiWorkerManager.__init__
ManagerConstructed ==
    /\ mgr_running = FALSE /\ mgr_paused = FALSE
    /\ account_chunks = <<>>
    /\ run_pc = [r \in Workers |-> "none"]

GateInit ==
    /\ accounts = <<>> /\ workers_count = 1 /\ targets = <<>> /\ action_chain = <<>>
    /\ between_actions = DefaultBetweenActions
    /\ texts = SomeTexts /\ like_dialog = <<>>
    /\ ManagerConstructed
    /\ Constructed

GateNext ==
    \E c \in Callers :
        /\ (GateCall(c) \/ GateLock(c) \/ GateBody(c))
        /\ UNCHANGED <<cfgVars, leafVars, mgrVars, engineVars>>

GateSpec == GateInit /\ [][GateNext]_vars

\* ------------------------------------------------------- configuration
Min(a, b) == IF a < b THEN a ELSE b
Last(s) == s[Len(s)]

\* where the chunk of the i-th worker starts -- with the mutation that gives
\* the remainder to the last chunks
RECURSIVE chunk_start_tail(_, _, _)
chunk_start_tail(accs, num_workers, i) ==
    IF i = 1 THEN 0
    ELSE LET chunk_size == Len(accs) \div num_workers
             remainder == Len(accs) % num_workers
         IN  chunk_start_tail(accs, num_workers, i - 1) + chunk_size
               + (IF i - 1 > num_workers - remainder THEN 1 ELSE 0)

\* _distribute_accounts: where the chunk of the i-th worker starts
RECURSIVE chunk_start(_, _, _)
chunk_start(accs, num_workers, i) ==
    IF i = 1 THEN 0
    ELSE LET chunk_size == Len(accs) \div num_workers
             remainder == Len(accs) % num_workers
         IN  chunk_start(accs, num_workers, i - 1) + chunk_size
               + (IF i - 2 < remainder THEN 1 ELSE 0)

\* _distribute_accounts: contiguous chunks, the remainder to the first ones
distribute_accounts(accs, num_workers) ==
    IF Len(accs) = 0 THEN [i \in 1..num_workers |-> <<>>]
    ELSE [i \in 1..num_workers |->
            LET start == chunk_start(accs, num_workers, i)
                end == chunk_start(accs, num_workers, i + 1)
            IN  IF start < Len(accs)
                THEN SubSeq(accs, start + 1, Min(end, Len(accs)))
                ELSE <<>>]

\* the accounts handed to worker w
chunk(w) ==
    IF w <= Len(account_chunks) THEN account_chunks[w] ELSE <<>>

\* for account in accounts: the account of the current pass
account(w) == chunk(w)[acct_idx[w]]

\* account_username = account['username']
account_username(w) == account(w).username

\* enabled_actions = [a for a in action_chain if a.get('enabled', True)]
enabled_actions == SelectSeq(action_chain, LAMBDA a : a.enabled)

\* the positions in action_chain of the steps of enabled_actions
enabled_positions ==
    SelectSeq([i \in 1..Len(action_chain) |-> i], LAMBDA i : action_chain[i].enabled)

\* the action types execute_single_action knows, and one it does not
ActionTypes == {"follow", "like_posts", "view_stories", "like_stories",
                "reply_stories", "send_dm", "delay"}
AllTypes == ActionTypes \cup {"other"}
StoryTypes == {"view_stories", "like_stories", "reply_stories"}

\* a step of a chain: its type, its enabled flag and settings['count']
Step(t, e, c) == [type |-> t, enabled |-> e, count |-> c]

\* a step that also has the 'name' key
NamedStep(t, e, c, name) ==
    [type |-> t, enabled |-> e, count |-> c, name |-> name]

\* action.get('name', action.get('type'))
step_name(action) ==
    IF "name" \in DOMAIN action THEN action.name ELSE action.type

\* the delay the dialog of add_delay_action proposes, and the ends of the
\* range of its spinbox
DialogDelay == 30
SpinFrom == 5
SpinTo == 300
\* the delays the dialog is confirmed with
DialogDelays == {SpinFrom, DialogDelay, SpinTo}

\* the 'name' ChainBuilderWidget writes into a step of type t set up with
\* the number n (the Ukrainian texts of gui.py are given in English)
builder_name(t, n) ==
    CASE t = "follow" -> "Follow user"
      [] t = "like_posts" -> "Like " \o ToString(n) \o " posts"
      [] t = "view_stories" -> "View " \o ToString(n) \o " stories"
      [] t = "like_stories" -> "Like " \o ToString(n) \o " stories"
      [] t = "reply_stories" -> "Reply to story"
      [] t = "send_dm" -> "Private message"
      [] t = "delay" -> "Delay " \o ToString(n) \o " sec"

\* a step as ChainBuilderWidget writes it for the number n its dialog
\* returned: the count of a counted step, the delay of a delay step
BuilderStep(t, e, n) ==
    NamedStep(t, e, IF t = "delay" THEN 1 ELSE n, builder_name(t, n))

\* the steps the chains of the engine and pool runs are built from: steps
\* without a name, and the same steps as the chain builder writes them (the
\* delay step with the delay its dialog proposes)
ChainTypes == {"follow", "delay"}
StepKinds == {Step(t, e, 1) : t \in ChainTypes, e \in BOOLEAN}
BuilderStepKinds ==
    {BuilderStep(t, e, IF t = "delay" THEN DialogDelay ELSE 1) :
        t \in ChainTypes, e \in BOOLEAN}

\* profile_info['has_stories'] is read by the story steps only; for a chain
\* without one the canvas query's answer is not distinguished
StoryRingAnswers ==
    IF \E i \in 1..Len(action_chain) : action_chain[i].type \in StoryTypes
    THEN BOOLEAN ELSE {FALSE}

\* ------------------------------------------------------------ statistics
Bump(st, d_succ, d_fail, d_total) ==
    [st EXCEPT !.successful_actions = @ + d_succ,
               !.failed_actions = @ + d_fail,
               !.total_actions = @ + d_total]

\* except-handlers of run_account_automation: failed_actions += 1 and one
\* record appended to stats['errors']
RecordError(st) ==
    [st EXCEPT !.failed_actions = @ + 1, !.errors = @ + 1]

\* What one Action Executor operation did: the value execute_single_action
\* returns, what the executor itself added to the shared counters, and the
\* story frames it viewed / story likes it performed
Outcome(success, d_succ, d_fail, d_total, views, likes) ==
    [success |-> success, d_succ |-> d_succ, d_fail |-> d_fail,
     d_total |-> d_total, views |-> views, likes |-> likes]

\* the executor did nothing and reported failure
Nothing == Outcome(FALSE, 0, 0, 0, 0, 0)

\* The follow control of a profile page reads "Follow" or "Following"
\* (texts are sequences of parts, compared without regard to case).
FollowText == <<"follow">>
FollowingText == <<"follow", "ing">>
PageControls == {NoControl, FollowText, FollowingText}

\* selectors['follow'] of config.py: "text=Follow" and "text=Following"
follow_button == <<"follow">>
following_button == <<"follow", "ing">>

\* page.query_selector("text=<body>") finds an element: an unquoted text
\* selector matches every element whose text contains the body
text_matches(body, text) ==
    \E i \in 1..(Len(text) - Len(body) + 1) :
        SubSeq(text, i, i + Len(body) - 1) = body

\* follow_user on a page whose follow control reads `shown`
follow_user(shown) ==
    { Outcome(FALSE, 0, 1, 1, 0, 0) }   \* fault
    \cup
    (IF text_matches(follow_button, shown)
     THEN { Outcome(TRUE, 1, 0, 1, 0, 0) }       \* the element is clicked
     ELSE IF text_matches(following_button, shown)
     THEN { Outcome(TRUE, 0, 0, 0, 0, 0) }       \* already following
     ELSE { Nothing })                           \* neither element found

\* follow_user clicked an element (it counts one success only then)
follow_clicked(action, o) == action.type = "follow" /\ o.d_succ = 1

\* what the follow control reads after it was clicked: "Follow" turns into
\* "Following" unless the site refuses; "Following" stays (the click opens
\* the unfollow dialog)
after_click(shown) ==
    IF shown = FollowText THEN {FollowText, FollowingText} ELSE {shown}

\* the follow control is read by the follow steps only; for a chain without
\* one what the page shows is not distinguished
FollowControls ==
    IF \E i \in 1..Len(action_chain) : action_chain[i].type = "follow"
    THEN PageControls ELSE {NoControl}

\* selectors['posts'] of config.py: like_button "[aria-label='Like']" and
\* liked_button "[aria-label='Unlike']"
like_button == "Like"
liked_button == "Unlike"

\* A post as like_recent_posts meets it: the aria-labels of the controls the
\* opened post shows, and the call that raises, if any: the click that opens
\* the post or the click on the like button.
PostKinds ==
    {[controls |-> c, fault |-> "none"] : c \in SUBSET {"Like", "Unlike"}}
    \cup {[controls |-> {"Like"}, fault |-> f] : f \in {"open", "like"}}

\* one pass of the loop body of like_recent_posts on a post: "liked",
\* "skipped" (liked before) or "failed" (the except of the loop body)
like_post(post) ==
    IF post.fault = "open" THEN "failed"
    \* page.wait_for_selector(like_button, timeout=5000) times out
    ELSE IF like_button \notin post.controls THEN "failed"
    ELSE IF liked_button \in post.controls THEN "skipped"
    ELSE IF post.fault = "like" THEN "failed"
    ELSE "liked"

\* like_recent_posts(page, target, account_username, count) on a profile
\* showing post_links (fault: the query for the links raised): what happened
\* to each post opened, the likes made, the failures counted and the value
\* returned
like_recent_posts(count, post_links, fault) ==
    LET posts_to_like == IF fault THEN 0 ELSE Min(count, Len(post_links))
        posts == [i \in 1..posts_to_like |-> like_post(post_links[i])]
        liked_count == Cardinality({i \in 1..posts_to_like : posts[i] = "liked"})
    IN  [posts |-> posts,
         liked |-> liked_count,
         failed |-> Cardinality({i \in 1..posts_to_like : posts[i] = "failed"}),
         success |-> liked_count > 0]

\* like_recent_posts(count) as execute_single_action sees it: each like adds
\* one successful action, each failed post one failed action
like_recent_posts_outcomes(count) ==
    { LET r == like_recent_posts(count, post_links, fault)
      IN  Outcome(r.success, r.liked, r.failed, r.liked + r.failed, 0, 0) :
        post_links \in UNION {[1..k -> PostKinds] : k \in 0..count},
        fault \in BOOLEAN }

\* What view_stories meets on the page: whether the story ring is found, how
\* many frames the story has, and the call that raises, if any: the query
\* for the ring, the click on it, the wait for the story container, the
\* viewing delay of a frame or the advance from a frame.
StoryFaults(count) ==
    {[at |-> a, frame |-> 0] : a \in {"none", "query", "click", "load"}}
    \cup {[at |-> a, frame |-> k] : a \in {"view", "advance"}, k \in 1..count}
StoryPages(count) ==
    [ring : BOOLEAN, frames : 1..(count + 1), fault : StoryFaults(count)]

\* for i in range(count): the frames counted when the loop is entered at
\* iteration i (0-based) with `viewed` frames counted so far
RECURSIVE view_loop(_, _, _, _)
view_loop(count, p, i, viewed) ==
    IF i >= count THEN viewed
    ELSE IF p.fault.at = "view" /\ p.fault.frame = i + 1 THEN viewed
    ELSE IF i >= count - 1 THEN viewed + 1
    ELSE IF p.fault.at = "advance" /\ p.fault.frame = i + 1 THEN viewed + 1
    ELSE IF i + 1 < p.frames THEN view_loop(count, p, i + 1, viewed + 1)
    ELSE viewed + 1     \* no next button: no more frames

\* the frames view_stories counts
story_frames(count, p) == view_loop(count, p, 0, 0)

\* view_stories(page, target, account_username, count) on page p: whether the
\* viewer was opened, whether close_stories was called, the frames counted
\* and the value returned
view_stories(count, p) ==
    IF p.fault.at = "query" \/ ~p.ring \/ p.fault.at = "click"
    THEN [opened |-> FALSE, closed |-> FALSE, viewed |-> 0, success |-> FALSE]
    ELSE IF p.fault.at = "load"
    THEN [opened |-> TRUE, closed |-> FALSE, viewed |-> 0, success |-> FALSE]
    ELSE [opened |-> TRUE, closed |-> TRUE, viewed |-> story_frames(count, p),
          success |-> story_frames(count, p) > 0]

\* view_stories(count) as execute_single_action sees it: each frame counted
\* adds one successful action
view_stories_outcomes(count) ==
    { LET r == view_stories(count, p)
      IN  Outcome(r.success, r.viewed, 0, r.viewed, r.viewed, 0) :
        p \in StoryPages(count) }

\* like_stories: the story is opened and liked at most once
like_stories == { Nothing, Outcome(TRUE, 1, 0, 1, 0, 1) }

\* reply_to_stories
reply_to_stories == { Nothing, Outcome(TRUE, 1, 0, 1, 0, 0) }

\* send_direct_message
send_direct_message ==
    { Nothing, Outcome(TRUE, 1, 0, 1, 0, 0), Outcome(FALSE, 0, 1, 1, 0, 0) }

\* execute_single_action -- with the mutation that lets an unknown type
\* count a failure of its own
ExecutorOutcomes_strict(action, hs, shown, tx) ==
    CASE action.type = "follow" -> follow_user(shown)
      [] action.type = "like_posts" -> like_recent_posts_outcomes(action.count)
      [] action.type = "view_stories" ->
            IF hs THEN view_stories_outcomes(action.count) ELSE {Nothing}
      [] action.type = "like_stories" -> IF hs THEN like_stories ELSE {Nothing}
      [] action.type = "reply_stories" ->
            IF hs /\ tx.story_replies # <<>> THEN reply_to_stories ELSE {Nothing}
      [] action.type = "send_dm" ->
            IF tx.direct_messages # <<>> THEN send_direct_message ELSE {Nothing}
      [] action.type = "delay" -> { Outcome(TRUE, 0, 0, 0, 0, 0) }
      [] OTHER -> { Outcome(FALSE, 0, 1, 1, 0, 0) }

\* execute_single_action for one step, given profile_info['has_stories'],
\* what the follow control of the page reads and the configured texts: a
\* reply_stories step without reply texts and a send_dm step without
\* message texts are refused before their executor runs
ExecutorOutcomes(action, hs, shown, tx) ==
    CASE action.type = "follow" -> follow_user(shown)
      [] action.type = "like_posts" -> like_recent_posts_outcomes(action.count)
      [] action.type = "view_stories" ->
            IF hs THEN view_stories_outcomes(action.count) ELSE {Nothing}
      [] action.type = "like_stories" -> IF hs THEN like_stories ELSE {Nothing}
      [] action.type = "reply_stories" ->
            IF hs /\ tx.story_replies # <<>> THEN reply_to_stories ELSE {Nothing}
      [] action.type = "send_dm" ->
            IF tx.direct_messages # <<>> THEN send_direct_message ELSE {Nothing}
      [] action.type = "delay" -> { Outcome(TRUE, 0, 0, 0, 0, 0) }
      [] OTHER -> {Nothing}

\* execute_single_action: action_result['error'] of a step that is refused
\* before any executor runs ("none": no such reason)
action_error(action, hs, tx) ==
    IF action.type \notin ActionTypes THEN "unknown action type"
    ELSE IF action.type \in StoryTypes /\ ~hs THEN "no active stories"
    ELSE IF action.type = "reply_stories" /\ tx.story_replies = <<>>
    THEN "no texts for replies"
    ELSE IF action.type = "send_dm" /\ tx.direct_messages = <<>>
    THEN "no texts for DM"
    ELSE "none"

\* the executors that count on their own while they still have calls to
\* await (like_recent_posts, view_stories, like_stories, reply_to_stories);
\* follow_user and send_direct_message count right before they return
counts_before_await(action) ==
    action.type \in {"like_posts", "view_stories", "like_stories", "reply_stories"}

\* ------------------------------------------------------------ safe_sleep
\* safe_sleep(duration) entered by worker w, to continue at `next`
EnterSleep(w, next) ==
    /\ pc' = [pc EXCEPT ![w] = "sleep"]
    /\ ret' = [ret EXCEPT ![w] = next]

Goto(w, next) ==
    /\ pc' = [pc EXCEPT ![w] = next]
    /\ ret' = ret

\* top of the loop: the duration has elapsed or running is false -> return;
\* otherwise, when paused, enter the inner `while self.paused` loop
SleepTop(w) ==
    /\ pc[w] = "sleep"
    /\ \/ /\ pc' = [pc EXCEPT ![w] = ret[w]]
          /\ ret' = [ret EXCEPT ![w] = "none"]
       \/ /\ auto_running[w] /\ auto_paused[w]
          /\ pc' = [pc EXCEPT ![w] = "sleep_paused"]
          /\ ret' = ret
    /\ UNCHANGED <<tgt_idx, flagVars, stats, active_sessions, acctVars, chainVars,
                   dispatched_total, handed>>

\* inner loop `while self.paused: await asyncio.sleep(0.1)`: left only when
\* paused is false; running is not read here
SleepPaused(w) ==
    /\ pc[w] = "sleep_paused"
    /\ ~auto_paused[w]
    /\ pc' = [pc EXCEPT ![w] = "sleep"]
    /\ UNCHANGED <<ret, tgt_idx, flagVars, stats, active_sessions, acctVars,
                   chainVars, dispatched_total, handed>>

\* --------------------------------------------------- browser manager
\* close_context: the lease is released only after context.close() returned
close_context_sessions(sessions, contexts, u, closed) ==
    IF u \in contexts /\ closed THEN release_session(sessions, u) ELSE sessions

close_context_contexts(contexts, u, closed) ==
    IF u \in contexts /\ closed THEN contexts \ {u} ELSE contexts

\* ------------------------------------------------ _worker_process
\* async with InstagramAutomation(...) as automation: automation.running = True
WorkerInit(w) ==
    /\ pc[w] = "w_start"
    /\ auto_running' = [auto_running EXCEPT ![w] = TRUE]
    /\ Goto(w, "acct_check")
    /\ UNCHANGED <<tgt_idx, auto_paused, stats, active_sessions, acctVars, chainVars,
                   dispatched_total, handed>>

\* an exception leaves run_account_automation (the status callback raised,
\* before the try or in the finally block): the except of _worker_process
\* logs it and continues with the next account, without the delay
AccountRaise(w) ==
    /\ acct_idx' = [acct_idx EXCEPT ![w] = @ + 1]
    /\ Goto(w, "acct_check")

\* one invocation of status_callback(worker_id, status, label)
Callback(status, label) == [status |-> status, label |-> label]

\* status_callback(worker_id, 'working', account_username) raises
EntryRaise(w) ==
    /\ AccountRaise(w)
    /\ handed' = [handed EXCEPT ![w] = Append(@, account(w))]
    /\ status_log' = [status_log EXCEPT
          ![w] = <<Callback("working", <<account_username(w)>>)>>]
    /\ UNCHANGED <<tgt_idx, flagVars, stats, active_sessions, context, page,
                   login_success, active_contexts, shuffled_targets, chain_calls, target_stats,
                   chainVars, dispatched_total>>

\* entry of run_account_automation: the 'working' status callback, then
\* context = None, page = None
BeginAccount(w) ==
    /\ Goto(w, "create_context")
    /\ handed' = [handed EXCEPT ![w] = Append(@, account(w))]
    /\ context' = [context EXCEPT ![w] = FALSE]
    /\ page' = [page EXCEPT ![w] = FALSE]
    /\ login_success' = [login_success EXCEPT ![w] = FALSE]
    /\ chain_calls' = [chain_calls EXCEPT ![w] = <<>>]
    /\ status_log' = [status_log EXCEPT
          ![w] = <<Callback("working", <<account_username(w)>>)>>]
    /\ target_stats' = [target_stats EXCEPT ![w] = <<>>]
    /\ shuffled_targets' = [shuffled_targets EXCEPT ![w] = <<>>]
    /\ tgt_idx' = [tgt_idx EXCEPT ![w] = 1]
    /\ UNCHANGED <<flagVars, stats, active_sessions, acct_idx, active_contexts,
                   chainVars, dispatched_total>>

\* for account in accounts: if not self.running: break;
\* while self.paused: await asyncio.sleep(1)
AccountCheck(w) ==
    /\ pc[w] = "acct_check"
    /\ IF acct_idx[w] > Len(chunk(w)) \/ ~mgr_running
       THEN /\ Goto(w, "w_cleanup")
            /\ UNCHANGED <<tgt_idx, flagVars, stats, active_sessions, acctVars,
                           chainVars, dispatched_total, handed>>
       ELSE IF mgr_paused
       THEN /\ Goto(w, "acct_paused")
            /\ UNCHANGED <<tgt_idx, flagVars, stats, active_sessions, acctVars,
                           chainVars, dispatched_total, handed>>
       ELSE BeginAccount(w) \/ EntryRaise(w)

AccountPaused(w) ==
    /\ pc[w] = "acct_paused"
    /\ ~mgr_paused
    /\ (BeginAccount(w) \/ EntryRaise(w))

\* the account-level except handler, then on to the finally block
AccountExcept(w) ==
    /\ stats' = [stats EXCEPT ![w] = RecordError(@)]
    /\ Goto(w, "finally")

\* context = await self.browser_manager.create_context(account_username, proxy):
\* up to the awaited acquire_session.  Without the lease create_context
\* returns None and run_account_automation raises; with it, create_context
\* goes on to `await self.browser_instance.new_context(...)`
CreateContext(w) ==
    /\ pc[w] = "create_context"
    /\ LET u == account_username(w)
           s == active_sessions[w]
       IN  /\ active_sessions' = [active_sessions EXCEPT ![w] = acquire_session(s, u, w)]
           /\ IF acquire_result(s, u)
              THEN /\ Goto(w, "new_context")
                   /\ UNCHANGED stats
              ELSE AccountExcept(w)
    /\ UNCHANGED <<tgt_idx, flagVars, acct_idx, context, page, login_success,
                   active_contexts, shuffled_targets, chain_calls, status_log,
                   target_stats, chainVars, dispatched_total, handed>>

\* create_context after the acquire: new_context and the stealth settings
\* return and the context is registered, or one of them raises and the
\* except releases the lease and returns None
NewContext(w) ==
    /\ pc[w] = "new_context"
    /\ LET u == account_username(w)
       IN  \/ /\ context' = [context EXCEPT ![w] = TRUE]
              /\ active_contexts' = [active_contexts EXCEPT ![w] = @ \cup {u}]
              /\ Goto(w, "create_page")
              /\ UNCHANGED <<stats, active_sessions>>
           \/ /\ active_sessions' = [active_sessions EXCEPT
                    ![w] = release_session(@, u)]
              /\ AccountExcept(w)
              /\ UNCHANGED <<context, active_contexts>>
    /\ UNCHANGED <<tgt_idx, flagVars, acct_idx, page, login_success,
                   shuffled_targets, chain_calls, status_log, target_stats,
                   chainVars, dispatched_total, handed>>

\* page = await self.browser_manager.create_page(context); login_account
\* starts (its safe_sleep calls)
CreatePage(w) ==
    /\ pc[w] = "create_page"
    /\ \/ /\ page' = [page EXCEPT ![w] = TRUE]
          /\ EnterSleep(w, "login_done")
          /\ UNCHANGED stats
       \/ /\ AccountExcept(w)
          /\ UNCHANGED page
    /\ UNCHANGED <<tgt_idx, flagVars, active_sessions, acct_idx, context,
                   login_success, active_contexts, shuffled_targets, chain_calls, status_log, target_stats,
                   chainVars, dispatched_total, handed>>

\* login_account returns, then
\* shuffled_targets = targets.copy(); random.shuffle(shuffled_targets)
Login(w) ==
    /\ pc[w] = "login_done"
    /\ \/ /\ \E sh \in Shuffles(targets) :
               shuffled_targets' = [shuffled_targets EXCEPT ![w] = sh]
          /\ login_success' = [login_success EXCEPT ![w] = TRUE]
          /\ Goto(w, "tgt_check")
          /\ UNCHANGED stats
       \/ /\ AccountExcept(w)
          /\ UNCHANGED <<shuffled_targets, login_success>>
    /\ UNCHANGED <<tgt_idx, flagVars, active_sessions, acct_idx, context, page,
                   active_contexts, chain_calls, status_log, target_stats, chainVars, dispatched_total, handed>>

\* -------------------------------------------------- check_profile_status
\* The text of a page is the set of the sentences it shows.  Besides the
\* sentences check_profile_status looks for, a page can show them in another
\* letter case.
Sentences ==
    {"Sorry, this page isn't available",
     "This Account is Private", "This account is private",
     "THIS ACCOUNT IS PRIVATE",
     "User not found", "user not found",
     "temporarily unavailable", "Temporarily Unavailable"}
PageContents == SUBSET Sentences

\* str.lower() of a sentence
lower(s) ==
    CASE s = "Sorry, this page isn't available" -> "sorry, this page isn't available"
      [] s \in {"This Account is Private", "This account is private",
                "THIS ACCOUNT IS PRIVATE"} -> "this account is private"
      [] s \in {"User not found", "user not found"} -> "user not found"
      [] s \in {"temporarily unavailable", "Temporarily Unavailable"} ->
            "temporarily unavailable"
      [] OTHER -> s

\* page_content.lower()
lower_content(page_content) == {lower(s) : s \in page_content}

\* the status dictionary check_profile_status starts from, with one state set
ProfileStatus_of(flag, reason) ==
    [blocked |-> flag # "none",
     private |-> flag = "private",
     not_found |-> flag = "not_found",
     suspended |-> flag = "suspended",
     reason |-> reason]

\* check_profile_status -- with the mutation that tests for a private
\* account first
check_profile_status_private_first(page_content, fault) ==
    IF fault THEN [blocked |-> TRUE, reason |-> "check failed"]
    ELSE IF "This Account is Private" \in page_content
              \/ "This account is private" \in page_content
    THEN ProfileStatus_of("private", "private account")
    ELSE IF "Sorry, this page isn't available" \in page_content
    THEN ProfileStatus_of("not_found", "page not found")
    ELSE IF "User not found" \in page_content
    THEN ProfileStatus_of("not_found", "user not found")
    ELSE IF "temporarily unavailable" \in lower_content(page_content)
    THEN ProfileStatus_of("suspended", "temporarily unavailable")
    ELSE ProfileStatus_of("none", "none")

\* check_profile_status(page, target) on a page showing page_content;
\* fault: page.content() raised
check_profile_status(page_content, fault) ==
    IF fault THEN [blocked |-> TRUE, reason |-> "check failed"]
    ELSE IF "Sorry, this page isn't available" \in page_content
    THEN ProfileStatus_of("not_found", "page not found")
    ELSE IF "This Account is Private" \in page_content
              \/ "This account is private" \in page_content
    THEN ProfileStatus_of("private", "private account")
    ELSE IF "User not found" \in page_content
    THEN ProfileStatus_of("not_found", "user not found")
    ELSE IF "temporarily unavailable" \in lower_content(page_content)
    THEN ProfileStatus_of("suspended", "temporarily unavailable")
    ELSE ProfileStatus_of("none", "none")

\* profile_status['blocked'] over the pages a target can show
BlockedAnswers ==
    {check_profile_status(page_content, fault).blocked :
        page_content \in PageContents, fault \in BOOLEAN}

\* an engine on a loaded page, check_profile_status not yet called
StatusInit ==
    /\ accounts = <<>> /\ workers_count = 1 /\ targets = <<>> /\ action_chain = <<>>
    /\ between_actions = DefaultBetweenActions
    /\ texts = SomeTexts /\ like_dialog = <<>>
    /\ ManagerConstructed
    /\ Constructed

\* profile_status = await self.check_profile_status(page, target)
CheckProfileStatus ==
    /\ status_result = <<>>
    /\ \E page_content \in PageContents, fault \in BOOLEAN :
         /\ status_args' = [page_content |-> page_content, fault |-> fault]
         /\ status_result' = <<check_profile_status(page_content, fault)>>
    /\ UNCHANGED <<cfgVars, delayVars, storyVars, likeVars, mgrVars, engineVars, active_sessions, gateVars>>

StatusNext == CheckProfileStatus

StatusSpec == StatusInit /\ [][StatusNext]_vars

\* -------------------------------------- run_account_automation: targets
\* navigate_to_profile is called with max_retries = 3 by the chain runner
MaxRetries == 3

\* the locals of execute_action_chain go out of scope
LeaveChain(w) ==
    /\ step_idx' = [step_idx EXCEPT ![w] = 1]
    /\ nav_attempt' = [nav_attempt EXCEPT ![w] = 0]
    /\ chain_local' = [chain_local EXCEPT
          ![w] = [successful |-> 0, failed |-> 0, dispatched |-> 0]]
    /\ has_stories' = [has_stories EXCEPT ![w] = FALSE]
    /\ profile_loaded' = [profile_loaded EXCEPT ![w] = FALSE]
    /\ recovery_success' = [recovery_success EXCEPT ![w] = FALSE]
    /\ blocked' = [blocked EXCEPT ![w] = FALSE]
    /\ stories_viewed' = [stories_viewed EXCEPT ![w] = 0]
    /\ stories_liked' = [stories_liked EXCEPT ![w] = 0]
    /\ page_follow' = [page_follow EXCEPT ![w] = NoControl]
    /\ follow_clicks' = [follow_clicks EXCEPT ![w] = <<>>]
    /\ step_raised' = [step_raised EXCEPT ![w] = "none"]
    /\ dispatch_log' = [dispatch_log EXCEPT ![w] = <<>>]
    /\ action_result' = [action_result EXCEPT ![w] = Nothing]
    /\ own_counted' = [own_counted EXCEPT ![w] = [succ |-> 0, fail |-> 0]]

\* back in the target loop after execute_action_chain returned:
\* if target != shuffled_targets[-1]: await self.safe_sleep(delay)
ReturnFromChain(w) ==
    /\ LeaveChain(w)
    /\ tgt_idx' = [tgt_idx EXCEPT ![w] = @ + 1]
    /\ IF shuffled_targets[w][tgt_idx[w]] # Last(shuffled_targets[w])
       THEN EnterSleep(w, "tgt_check")
       ELSE Goto(w, "tgt_check")

\* 'actions_performed': [action.get('name', action.get('type')) for action
\* in enabled_actions] (a step without a name goes by its type)
actions_performed ==
    [i \in 1..Len(enabled_actions) |-> step_name(enabled_actions[i])]

\* after the step loop: save_target_statistics records the entry of the
\* target with the chain-local counts, and execute_action_chain returns
EndStepLoop(w) ==
    /\ target_stats' = [target_stats EXCEPT ![w] = Append(@,
          [target |-> shuffled_targets[w][tgt_idx[w]],
           successful_actions |-> chain_local[w].successful,
           failed_actions |-> chain_local[w].failed,
           actions_performed |-> actions_performed])]
    /\ ReturnFromChain(w)

\* execute_action_chain raised -- with the mutation that lets the exception
\* leave the target loop
TargetExcept_propagate(w) ==
    /\ LeaveChain(w)
    /\ tgt_idx' = tgt_idx
    /\ Goto(w, "finally")

\* execute_action_chain raised: the except inside the for loop records the
\* error and the loop goes on with the next target
TargetExcept(w) ==
    /\ LeaveChain(w)
    /\ tgt_idx' = [tgt_idx EXCEPT ![w] = @ + 1]
    /\ Goto(w, "tgt_check")

\* call of execute_action_chain -- with the mutation that tests the chain
\* without filtering the enabled steps
StartTarget_unfiltered(w) ==
    /\ status_log' = [status_log EXCEPT ![w] = Append(@,
          Callback("working", <<account_username(w), shuffled_targets[w][tgt_idx[w]]>>))]
    /\ \/ \* the callback returns: execute_action_chain is called
          /\ chain_calls' = [chain_calls EXCEPT
                ![w] = Append(@, shuffled_targets[w][tgt_idx[w]])]
          /\ IF Len(action_chain) = 0
             THEN ReturnFromChain(w)
             ELSE /\ Goto(w, "navigate")
                  /\ nav_attempt' = [nav_attempt EXCEPT ![w] = 1]
                  /\ UNCHANGED <<tgt_idx, step_idx, profile_loaded, recovery_success, blocked,
                                 chain_local, has_stories, stories_viewed,
                                 stories_liked, stepObs>>
          /\ UNCHANGED stats
       \/ \* the callback raises: the except of the target loop counts a
          \* failure and an error, and the loop goes on with the next target
          /\ stats' = [stats EXCEPT ![w] = RecordError(@)]
          /\ TargetExcept(w)
          /\ UNCHANGED chain_calls
    /\ UNCHANGED <<flagVars, active_sessions, acct_idx, context, page,
                   login_success, active_contexts, shuffled_targets, target_stats,
                   dispatched_total, handed>>

\* the 'working' status callback with the target's label, then the call of
\* execute_action_chain for the current target; an empty chain or one
\* without enabled steps returns at once
StartTarget(w) ==
    /\ status_log' = [status_log EXCEPT ![w] = Append(@,
          Callback("working", <<account_username(w), shuffled_targets[w][tgt_idx[w]]>>))]
    /\ \/ \* the callback returns: execute_action_chain is called
          /\ chain_calls' = [chain_calls EXCEPT
                ![w] = Append(@, shuffled_targets[w][tgt_idx[w]])]
          /\ IF Len(enabled_actions) = 0
             THEN ReturnFromChain(w)
             ELSE /\ Goto(w, "navigate")
                  /\ nav_attempt' = [nav_attempt EXCEPT ![w] = 1]
                  /\ UNCHANGED <<tgt_idx, step_idx, profile_loaded, recovery_success, blocked,
                                 chain_local, has_stories, stories_viewed,
                                 stories_liked, stepObs>>
          /\ UNCHANGED stats
       \/ \* the callback raises: the except of the target loop counts a
          \* failure and an error, and the loop goes on with the next target
          /\ stats' = [stats EXCEPT ![w] = RecordError(@)]
          /\ TargetExcept(w)
          /\ UNCHANGED chain_calls
    /\ UNCHANGED <<flagVars, active_sessions, acct_idx, context, page,
                   login_success, active_contexts, shuffled_targets, target_stats,
                   dispatched_total, handed>>

\* for target in shuffled_targets: if not self.running: break;
\* while self.paused: await asyncio.sleep(1)
TargetCheck(w) ==
    /\ pc[w] = "tgt_check"
    /\ IF tgt_idx[w] > Len(shuffled_targets[w]) \/ ~auto_running[w]
       THEN /\ stats' = [stats EXCEPT ![w].accounts_processed = @ + 1]
            /\ Goto(w, "finally")
            /\ UNCHANGED <<tgt_idx, flagVars, active_sessions, acctVars, chainVars,
                           dispatched_total, handed>>
       ELSE IF auto_paused[w]
       THEN /\ Goto(w, "tgt_paused")
            /\ UNCHANGED <<tgt_idx, flagVars, stats, active_sessions, acctVars,
                           chainVars, dispatched_total, handed>>
       ELSE StartTarget(w)

TargetPaused(w) ==
    /\ pc[w] = "tgt_paused"
    /\ ~auto_paused[w]
    /\ StartTarget(w)

\* ------------------------------------------------- execute_action_chain
\* the caller's assignment of the value navigate_to_profile returns:
\* profile_loaded = await self.navigate_to_profile(page, target)
ProfileLoaded(w, value) ==
    /\ profile_loaded' = [profile_loaded EXCEPT ![w] = value]
    /\ UNCHANGED recovery_success

\* recovery_success = await self.attempt_error_recovery(page, target, e)
RecoverySuccess(w, value) ==
    /\ recovery_success' = [recovery_success EXCEPT ![w] = value]
    /\ UNCHANGED profile_loaded

\* the value navigate_to_profile returns is assigned by its caller: by the
\* step loop's except block when attempt_error_recovery made the call
\* (recovering), by the head of execute_action_chain otherwise
Assign(w, recovering, value) ==
    IF recovering THEN RecoverySuccess(w, value) ELSE ProfileLoaded(w, value)

\* navigate_to_profile(page, target, max_retries): one load attempt of the
\* loop that runs at pc `here` and returns to `done`
navigate_to_profile(w, max_retries, here, done, recovering) ==
    /\ \/ \* loaded and the title matches: settle sleep, return True
          /\ Assign(w, recovering, TRUE)
          /\ \E shown \in FollowControls :
                page_follow' = [page_follow EXCEPT ![w] = shown]
          /\ EnterSleep(w, done)
          /\ UNCHANGED nav_attempt
       \/ \* loaded, title does not match: next attempt at once
          /\ nav_attempt[w] < max_retries
          /\ nav_attempt' = [nav_attempt EXCEPT ![w] = @ + 1]
          /\ Goto(w, here)
          /\ UNCHANGED <<profile_loaded, recovery_success, page_follow>>
       \/ \* fault: back off, then the next attempt
          /\ nav_attempt[w] < max_retries
          /\ nav_attempt' = [nav_attempt EXCEPT ![w] = @ + 1]
          /\ EnterSleep(w, here)
          /\ UNCHANGED <<profile_loaded, recovery_success, page_follow>>
       \/ \* the last attempt failed too: return False
          /\ nav_attempt[w] = max_retries
          /\ Assign(w, recovering, FALSE)
          /\ Goto(w, done)
          /\ UNCHANGED <<nav_attempt, page_follow>>
    /\ UNCHANGED <<tgt_idx, flagVars, stats, active_sessions, acctVars, step_idx,
                   blocked, chain_local, has_stories, stories_viewed,
                   stories_liked, follow_clicks, step_raised, dispatch_log,
                   action_result, own_counted, dispatched_total, handed>>

\* profile_loaded = await self.navigate_to_profile(page, target)
Navigate(w) ==
    /\ pc[w] = "navigate"
    /\ navigate_to_profile(w, MaxRetries, "navigate", "nav_done", FALSE)

\* if not profile_loaded: return -- with the mutation that goes on regardless
NavDone_ignore(w) ==
    /\ pc[w] = "nav_done"
    /\ Goto(w, "inspect")
    /\ UNCHANGED <<tgt_idx, chainVars>>
    /\ UNCHANGED <<flagVars, stats, active_sessions, acctVars, dispatched_total, handed>>

\* profile_loaded = await self.navigate_to_profile(page, target);
\* if not profile_loaded: return
NavDone(w) ==
    /\ pc[w] = "nav_done"
    /\ IF ~profile_loaded[w]
       THEN ReturnFromChain(w)
       ELSE /\ Goto(w, "inspect")
            /\ UNCHANGED <<tgt_idx, chainVars>>
    /\ UNCHANGED <<flagVars, stats, active_sessions, acctVars, dispatched_total, handed>>

\* profile_status = await self.check_profile_status(page, target)
Inspect(w) ==
    /\ pc[w] = "inspect"
    /\ \E b \in BlockedAnswers : blocked' = [blocked EXCEPT ![w] = b]
    /\ Goto(w, "status_checked")
    /\ UNCHANGED <<tgt_idx, flagVars, stats, active_sessions, acctVars, step_idx,
                   nav_attempt, profile_loaded, recovery_success, chain_local, has_stories,
                   stories_viewed, stories_liked, stepObs, dispatched_total, handed>>

\* gather_profile_info and the log line that reads profile_info['posts_count']
GatherInfo(w) ==
    \/ \* profile information gathered: the step loop starts
       /\ \E hs \in StoryRingAnswers :
            has_stories' = [has_stories EXCEPT ![w] = hs]
       /\ Goto(w, "step_check")
       /\ UNCHANGED <<tgt_idx, stats, step_idx, nav_attempt, profile_loaded, recovery_success, blocked,
                      chain_local, stories_viewed, stories_liked, stepObs>>
    \/ \* gather_profile_info returned its fallback {'username': target}:
       \* KeyError, the outer handler counts a failure and re-raises
       /\ stats' = [stats EXCEPT ![w] = RecordError(Bump(@, 0, 1, 0))]
       /\ TargetExcept(w)

\* if profile_status['blocked']: return -- with the mutation that goes on
ProfileStatus_ignore(w) ==
    /\ pc[w] = "status_checked"
    /\ GatherInfo(w)
    /\ UNCHANGED <<flagVars, active_sessions, acctVars, dispatched_total, handed>>

\* if profile_status['blocked']: return; else the profile info is gathered
ProfileStatus(w) ==
    /\ pc[w] = "status_checked"
    /\ IF blocked[w]
       THEN /\ ReturnFromChain(w)
            /\ UNCHANGED stats
       ELSE GatherInfo(w)
    /\ UNCHANGED <<flagVars, active_sessions, acctVars, dispatched_total, handed>>

\* execute_single_action is entered for enabled_actions[step_idx]
Dispatch(w) ==
    /\ chain_local' = [chain_local EXCEPT ![w].dispatched = @ + 1]
    /\ dispatched_total' = [dispatched_total EXCEPT ![w] = @ + 1]
    /\ dispatch_log' = [dispatch_log EXCEPT
          ![w] = Append(@, enabled_positions[step_idx[w]])]
    /\ step_raised' = [step_raised EXCEPT ![w] = "none"]
    /\ handed' = handed
    /\ \/ EnterSleep(w, "executor")
       \/ /\ enabled_actions[step_idx[w]].type # "delay"
          /\ Goto(w, "executor")
    /\ UNCHANGED <<tgt_idx, flagVars, stats, active_sessions, acctVars,
                   step_idx, nav_attempt, profile_loaded, recovery_success, blocked, has_stories,
                   stories_viewed, stories_liked, page_follow, follow_clicks,
                   action_result, own_counted>>

\* for i, action in enumerate(enabled_actions): if not self.running: break;
\* while self.paused: await asyncio.sleep(1)
StepCheck(w) ==
    /\ pc[w] = "step_check"
    /\ IF step_idx[w] > Len(enabled_actions) \/ ~auto_running[w]
       THEN /\ EndStepLoop(w)
            /\ UNCHANGED <<flagVars, stats, active_sessions, acctLocals, dispatched_total, handed>>
       ELSE IF auto_paused[w]
       THEN /\ Goto(w, "step_paused")
            /\ UNCHANGED <<tgt_idx, flagVars, stats, active_sessions, acctVars,
                           chainVars, dispatched_total, handed>>
       ELSE Dispatch(w)

StepPaused(w) ==
    /\ pc[w] = "step_paused"
    /\ ~auto_paused[w]
    /\ Dispatch(w)

\* calculate_action_delay: random.uniform(*base_delays) raises unless
\* action_delays['between_actions'] holds exactly two bounds
delay_raises(base_delays) == Len(base_delays) # 2

\* the executor of the dispatched step acts on the page: what it clicks is
\* visible at once; after a click it sleeps before it counts.  follow_user
\* and send_direct_message count right before they return, the other
\* executors while they still have calls to await.  A fault of the executor
\* arrives as a result with success = False.
Executor(w) ==
    /\ pc[w] = "executor"
    /\ LET action == enabled_actions[step_idx[w]] IN
       \E o \in ExecutorOutcomes(action, has_stories[w], page_follow[w], texts) :
          /\ action_result' = [action_result EXCEPT ![w] = o]
          /\ stories_liked' = [stories_liked EXCEPT ![w] = @ + o.likes]
          /\ IF follow_clicked(action, o)
             THEN /\ follow_clicks' = [follow_clicks EXCEPT
                        ![w] = Append(@, page_follow[w])]
                  /\ \E shown \in after_click(page_follow[w]) :
                        page_follow' = [page_follow EXCEPT ![w] = shown]
                  /\ EnterSleep(w, "action_end")
             ELSE /\ UNCHANGED <<follow_clicks, page_follow>>
                  /\ IF counts_before_await(action) /\ o.d_total > 0
                     THEN EnterSleep(w, "executor_count")
                     ELSE Goto(w, "action_end")
    /\ UNCHANGED <<tgt_idx, flagVars, stats, active_sessions, acctVars, step_idx,
                   nav_attempt, profile_loaded, recovery_success, blocked, chain_local, has_stories,
                   stories_viewed, step_raised, dispatch_log, own_counted,
                   dispatched_total, handed>>

\* like_recent_posts, view_stories, like_stories, reply_to_stories: one
\* increment of the shared counters by the running executor (a post liked,
\* a post failed, a frame viewed, a story liked or replied to), after which
\* the executor goes on with the next post or frame or closes the viewer
ExecutorCount(w) ==
    /\ pc[w] = "executor_count"
    /\ LET action == enabled_actions[step_idx[w]]
           o == action_result[w]
           c == own_counted[w]
       IN  \E succeeded \in BOOLEAN :
             LET c2 == IF succeeded THEN [c EXCEPT !.succ = @ + 1]
                       ELSE [c EXCEPT !.fail = @ + 1]
             IN
             /\ IF succeeded THEN c.succ < o.d_succ ELSE c.fail < o.d_fail
             /\ stats' = [stats EXCEPT ![w] =
                   IF succeeded THEN Bump(@, 1, 0, 1) ELSE Bump(@, 0, 1, 1)]
             /\ own_counted' = [own_counted EXCEPT ![w] = c2]
             /\ stories_viewed' = [stories_viewed EXCEPT ![w] =
                   IF action.type = "view_stories" THEN @ + 1 ELSE @]
             /\ IF c2.succ = o.d_succ /\ c2.fail = o.d_fail
                \* close_post / close_stories: a sleep unless the closing raised
                THEN \/ EnterSleep(w, "action_end")
                     \/ Goto(w, "action_end")
                ELSE EnterSleep(w, "executor_count")
    /\ UNCHANGED <<tgt_idx, flagVars, active_sessions, acctVars, step_idx,
                   nav_attempt, profile_loaded, recovery_success, blocked, chain_local, has_stories,
                   stories_liked, page_follow, follow_clicks, step_raised,
                   dispatch_log, action_result, dispatched_total, handed>>

\* the rest of one pass of the step loop after the step was counted:
\* self.stats['total_actions'] += 1 is done by the caller; here the
\* inter-action delay.  A fault of the delay computation reaches the except
\* of the step loop.
StepTail(w, o) ==
    LET delayed == step_idx[w] < Len(enabled_actions) IN
    /\ action_result' = [action_result EXCEPT ![w] = Nothing]
    /\ own_counted' = [own_counted EXCEPT ![w] = [succ |-> 0, fail |-> 0]]
    /\ step_raised' = [step_raised EXCEPT ![w] =
          IF delayed /\ delay_raises(between_actions) THEN "delay"
          ELSE IF o.d_fail > 0 THEN "executor"
          ELSE "none"]
    /\ IF delayed
       THEN IF delay_raises(between_actions)
            THEN Goto(w, "step_except")
            ELSE EnterSleep(w, "block_check")
       ELSE Goto(w, "block_check")

\* the executor returned and the chain counts the step; follow_user and
\* send_direct_message added their own count right before they returned.
\* After a successful follow or like_posts step the chain awaits
\* update_profile_info before it counts total_actions.
ActionEnd(w) ==
    /\ pc[w] = "action_end"
    /\ LET action == enabled_actions[step_idx[w]]
           o == action_result[w]
           counted == IF counts_before_await(action) THEN stats[w]
                      ELSE Bump(stats[w], o.d_succ, o.d_fail, o.d_total)
       IN
          /\ chain_local' = [chain_local EXCEPT ![w] =
                IF o.success THEN [@ EXCEPT !.successful = @ + 1]
                ELSE [@ EXCEPT !.failed = @ + 1]]
          /\ IF o.success /\ action.type \in {"follow", "like_posts"}
             THEN /\ stats' = [stats EXCEPT ![w] = Bump(counted, 1, 0, 0)]
                  /\ Goto(w, "profile_update")
                  /\ UNCHANGED <<action_result, own_counted, step_raised>>
             ELSE /\ stats' = [stats EXCEPT ![w] =
                        IF o.success THEN Bump(counted, 1, 0, 1)
                        ELSE Bump(counted, 0, 1, 1)]
                  /\ StepTail(w, o)
    /\ UNCHANGED <<tgt_idx, flagVars, active_sessions, acctVars, step_idx,
                   nav_attempt, profile_loaded, recovery_success, blocked, has_stories,
                   stories_viewed, stories_liked, page_follow, follow_clicks,
                   dispatch_log, dispatched_total, handed>>

\* profile_info = await self.update_profile_info(page, profile_info,
\* action_type) returned, then self.stats['total_actions'] += 1
ProfileUpdate(w) ==
    /\ pc[w] = "profile_update"
    /\ \E hs \in StoryRingAnswers :
          has_stories' = [has_stories EXCEPT ![w] = hs]
    /\ stats' = [stats EXCEPT ![w] = Bump(@, 0, 0, 1)]
    /\ StepTail(w, action_result[w])
    /\ UNCHANGED <<tgt_idx, flagVars, active_sessions, acctVars, step_idx,
                   nav_attempt, profile_loaded, recovery_success, blocked, chain_local,
                   stories_viewed, stories_liked, page_follow, follow_clicks,
                   dispatch_log, dispatched_total, handed>>

\* attempt_error_recovery calls navigate_to_profile with max_retries = 2
RecoveryRetries == 2

\* except Exception of the step loop: the step is counted failed, then
\* attempt_error_recovery starts (load-state check, reload and dialog
\* closing with their sleeps)
StepExcept(w) ==
    /\ pc[w] = "step_except"
    /\ stats' = [stats EXCEPT ![w] = Bump(@, 0, 1, 1)]
    /\ chain_local' = [chain_local EXCEPT ![w].failed = @ + 1]
    /\ \/ \* the page answers, no dialog to close
          /\ Goto(w, "recover_nav")
          /\ nav_attempt' = [nav_attempt EXCEPT ![w] = 1]
          /\ UNCHANGED <<profile_loaded, recovery_success>>
       \/ \* the page was reloaded or a dialog closed: safe_sleep
          /\ EnterSleep(w, "recover_nav")
          /\ nav_attempt' = [nav_attempt EXCEPT ![w] = 1]
          /\ UNCHANGED <<profile_loaded, recovery_success>>
       \/ \* page.reload raised: attempt_error_recovery returns False
          /\ Goto(w, "recovered")
          /\ nav_attempt' = [nav_attempt EXCEPT ![w] = 0]
          /\ RecoverySuccess(w, FALSE)
    /\ UNCHANGED <<tgt_idx, flagVars, active_sessions, acctVars, step_idx,
                   blocked, has_stories, stories_viewed, stories_liked, stepObs,
                   dispatched_total, handed>>

\* return await self.navigate_to_profile(page, target, max_retries=2): the
\* value returned is the value of attempt_error_recovery, which the step
\* loop assigns to recovery_success
RecoverNavigate(w) ==
    /\ pc[w] = "recover_nav"
    /\ navigate_to_profile(w, RecoveryRetries, "recover_nav", "recovered", TRUE)

\* recovery_success = await self.attempt_error_recovery(...);
\* if not recovery_success: break -- else on to the next enabled step
Recovered(w) ==
    /\ pc[w] = "recovered"
    /\ IF recovery_success[w]
       THEN /\ step_idx' = [step_idx EXCEPT ![w] = @ + 1]
            /\ Goto(w, "step_check")
            /\ UNCHANGED <<tgt_idx, nav_attempt, profile_loaded, recovery_success, blocked, chain_local,
                           has_stories, stories_viewed, stories_liked, stepObs,
                           acctVars>>
       ELSE /\ EndStepLoop(w)
            /\ UNCHANGED acctLocals
    /\ UNCHANGED <<flagVars, stats, active_sessions, dispatched_total, handed>>

\* check_for_blocks(page): the scan of the page for a block indicator
BlockCheck(w) ==
    /\ pc[w] = "block_check"
    /\ \/ Goto(w, "block_found")
       \/ Goto(w, "block_clear")
    /\ UNCHANGED <<tgt_idx, flagVars, stats, active_sessions, acctVars, chainVars,
                   dispatched_total, handed>>

\* no indicator found -- with the mutation that runs the same step again
BlockClear_repeat(w) ==
    /\ pc[w] = "block_clear"
    /\ step_idx' = step_idx
    /\ Goto(w, "step_check")
    /\ UNCHANGED <<tgt_idx, nav_attempt, profile_loaded, recovery_success, blocked, chain_local,
                   has_stories, stories_viewed, stories_liked, stepObs>>
    /\ UNCHANGED <<flagVars, stats, active_sessions, acctVars, dispatched_total, handed>>

\* no indicator found: the loop goes on with the next enabled step
BlockClear(w) ==
    /\ pc[w] = "block_clear"
    /\ step_idx' = [step_idx EXCEPT ![w] = @ + 1]
    /\ Goto(w, "step_check")
    /\ UNCHANGED <<tgt_idx, nav_attempt, profile_loaded, recovery_success, blocked, chain_local,
                   has_stories, stories_viewed, stories_liked, stepObs>>
    /\ UNCHANGED <<flagVars, stats, active_sessions, acctVars, dispatched_total, handed>>

\* an indicator was found -- with the mutation that goes on with the chain
BlockFound_retry(w) ==
    /\ pc[w] = "block_found"
    /\ step_idx' = [step_idx EXCEPT ![w] = @ + 1]
    /\ Goto(w, "step_check")
    /\ UNCHANGED <<tgt_idx, nav_attempt, profile_loaded, recovery_success, blocked, chain_local,
                   has_stories, stories_viewed, stories_liked, stepObs>>
    /\ UNCHANGED <<flagVars, stats, active_sessions, acctVars, dispatched_total, handed>>

\* if await self.check_for_blocks(page): break
BlockFound(w) ==
    /\ pc[w] = "block_found"
    /\ EndStepLoop(w)
    /\ UNCHANGED <<flagVars, stats, active_sessions, acctLocals, dispatched_total, handed>>

\* ------------------------------------- run_account_automation: finally
\* if status_callback: status_callback(worker_id, 'idle') -- with the
\* mutation that leaves the callback out
status_idle_skipped(log) == log
status_idle(log) == Append(log, Callback("idle", <<>>))

\* page.close() and close_context(account_username), faults swallowed,
\* then the 'idle' status callback
Finally(w) ==
    /\ pc[w] = "finally"
    /\ IF context[w]
       THEN \E closed \in BOOLEAN :
            LET u == account_username(w) IN
             /\ active_sessions' = [active_sessions EXCEPT ![w] =
                   close_context_sessions(@, active_contexts[w], u, closed)]
             /\ active_contexts' = [active_contexts EXCEPT ![w] =
                   close_context_contexts(@, u, closed)]
       ELSE UNCHANGED <<active_sessions, active_contexts>>
    /\ status_log' = [status_log EXCEPT ![w] = status_idle(@)]
    /\ \/ /\ Goto(w, "acct_return")
          /\ UNCHANGED acct_idx
       \/ \* status_callback(worker_id, 'idle') raises
          AccountRaise(w)
    /\ UNCHANGED <<tgt_idx, flagVars, stats, context, page, login_success,
                   shuffled_targets, chain_calls, target_stats, chainVars, dispatched_total, handed>>

\* back in _worker_process -- with the mutation that leaves the account
\* loop when the account failed
AccountReturn_break(w) ==
    /\ pc[w] = "acct_return"
    /\ IF ~login_success[w]
       THEN /\ Goto(w, "w_cleanup")
            /\ UNCHANGED acct_idx
       ELSE /\ acct_idx' = [acct_idx EXCEPT ![w] = @ + 1]
            /\ IF account(w) # Last(chunk(w))
               THEN EnterSleep(w, "acct_check")
               ELSE Goto(w, "acct_check")
    /\ UNCHANGED <<tgt_idx, flagVars, stats, active_sessions, context, page,
                   login_success, active_contexts, shuffled_targets, chain_calls, status_log, target_stats,
                   chainVars, dispatched_total, handed>>

\* back in _worker_process: if account != accounts[-1]: safe_sleep(...)
AccountReturn(w) ==
    /\ pc[w] = "acct_return"
    /\ acct_idx' = [acct_idx EXCEPT ![w] = @ + 1]
    /\ IF account(w) # Last(chunk(w))
       THEN EnterSleep(w, "acct_check")
       ELSE Goto(w, "acct_check")
    /\ UNCHANGED <<tgt_idx, flagVars, stats, active_sessions, context, page,
                   login_success, active_contexts, shuffled_targets, chain_calls, status_log, target_stats,
                   chainVars, dispatched_total, handed>>

\* __aexit__ -> cleanup(): self.running = False, browser_manager.cleanup()
WorkerCleanup(w) ==
    /\ pc[w] = "w_cleanup"
    /\ auto_running' = [auto_running EXCEPT ![w] = FALSE]
    /\ Goto(w, "w_idle")
    /\ UNCHANGED <<tgt_idx, auto_paused, stats, active_sessions, acctVars, chainVars,
                   dispatched_total, handed>>

\* finally of _worker_process: status_callback(worker_id, 'idle'); whether
\* it returns or raises, the task is done (gather keeps the exception)
WorkerIdle(w) ==
    /\ pc[w] = "w_idle"
    /\ status_log' = [status_log EXCEPT ![w] = Append(@, Callback("idle", <<>>))]
    /\ Goto(w, "w_done")
    /\ UNCHANGED <<tgt_idx, flagVars, stats, active_sessions, acct_idx, context,
                   page, login_success, active_contexts, shuffled_targets,
                   chain_calls, target_stats, chainVars, dispatched_total, handed>>

WorkerStep(w) ==
    /\ \/ WorkerInit(w) \/ AccountCheck(w) \/ AccountPaused(w)
       \/ CreateContext(w) \/ NewContext(w) \/ CreatePage(w) \/ Login(w)
       \/ TargetCheck(w) \/ TargetPaused(w)
       \/ Navigate(w) \/ NavDone(w) \/ Inspect(w) \/ ProfileStatus(w)
       \/ StepCheck(w) \/ StepPaused(w)
       \/ Executor(w) \/ ExecutorCount(w) \/ ActionEnd(w) \/ ProfileUpdate(w)
       \/ BlockCheck(w) \/ BlockClear(w) \/ BlockFound(w)
       \/ StepExcept(w) \/ RecoverNavigate(w) \/ Recovered(w)
       \/ Finally(w) \/ AccountReturn(w) \/ WorkerCleanup(w) \/ WorkerIdle(w)
       \/ SleepTop(w) \/ SleepPaused(w)
    /\ UNCHANGED <<cfgVars, leafVars, mgrVars, gateVars>>

\* ------------------------------------------ InstagramAutomation controls
InUse(w) == pc[w] \notin {"none", "w_start", "w_done"}

\* stop(): self.running = False
EngineStop(w) ==
    /\ InUse(w) /\ auto_running[w]
    /\ auto_running' = [auto_running EXCEPT ![w] = FALSE]
    /\ UNCHANGED <<pc, ret, tgt_idx, auto_paused, stats, acctVars, chainVars,
                   dispatched_total, handed, active_sessions, cfgVars, leafVars, mgrVars, gateVars>>

\* pause(): self.paused = True
EnginePause(w) ==
    /\ InUse(w) /\ ~auto_paused[w]
    /\ auto_paused' = [auto_paused EXCEPT ![w] = TRUE]
    /\ UNCHANGED <<pc, ret, tgt_idx, auto_running, stats, acctVars, chainVars,
                   dispatched_total, handed, active_sessions, cfgVars, leafVars, mgrVars, gateVars>>

\* resume(): self.paused = False
EngineResume(w) ==
    /\ InUse(w) /\ auto_paused[w]
    /\ auto_paused' = [auto_paused EXCEPT ![w] = FALSE]
    /\ UNCHANGED <<pc, ret, tgt_idx, auto_running, stats, acctVars, chainVars,
                   dispatched_total, handed, active_sessions, cfgVars, leafVars, mgrVars, gateVars>>

\* ------------------------------------------------------ inputs of a run
\* lists are taken up to the renaming of usernames and handles
\* account lists: the first account is u1; a later one is another account,
\* the same account again, or another account with the same username
AccountLists ==
    {s \in SeqsUpTo(Accounts, MaxAccounts) :
        /\ Len(s) >= 1 /\ s[1] = Account("u1", "a")
        /\ \A i \in 1..Len(s) : s[i].username = "u2" => s[i].password = "a"}
TargetLists ==
    {s \in SeqsUpTo(Handles, MaxTargets) : Len(s) >= 1 => s[1] = "t1"}
\* a chain without names, or one authored in the chain builder
Chains == SeqsUpTo(StepKinds, MaxChain) \cup SeqsUpTo(BuilderStepKinds, MaxChain)

\* worker 1 is about to enter _worker_process with a freshly constructed
\* InstagramAutomation; no other worker exists
WorkerStarted ==
    /\ pc = [w \in Workers |-> IF w = 1 THEN "w_start" ELSE "none"]
    /\ ret = [w \in Workers |-> "none"]
    /\ tgt_idx = [w \in Workers |-> 1]
    /\ auto_running = [w \in Workers |-> FALSE]
    /\ auto_paused = [w \in Workers |-> FALSE]
    /\ stats = [w \in Workers |->
            [total_actions |-> 0, successful_actions |-> 0,
             failed_actions |-> 0, accounts_processed |-> 0, errors |-> 0]]
    /\ active_sessions = [w \in Workers |-> [u \in Users |-> NoLease]]
    /\ acct_idx = [w \in Workers |-> 1]
    /\ context = [w \in Workers |-> FALSE]
    /\ page = [w \in Workers |-> FALSE]
    /\ login_success = [w \in Workers |-> FALSE]
    /\ active_contexts = [w \in Workers |-> {}]
    /\ shuffled_targets = [w \in Workers |-> <<>>]
    /\ chain_calls = [w \in Workers |-> <<>>]
    /\ status_log = [w \in Workers |-> <<>>]
    /\ target_stats = [w \in Workers |-> <<>>]
    /\ step_idx = [w \in Workers |-> 1]
    /\ nav_attempt = [w \in Workers |-> 0]
    /\ profile_loaded = [w \in Workers |-> FALSE]
    /\ recovery_success = [w \in Workers |-> FALSE]
    /\ blocked = [w \in Workers |-> FALSE]
    /\ stories_viewed = [w \in Workers |-> 0]
    /\ stories_liked = [w \in Workers |-> 0]
    /\ page_follow = [w \in Workers |-> NoControl]
    /\ follow_clicks = [w \in Workers |-> <<>>]
    /\ step_raised = [w \in Workers |-> "none"]
    /\ dispatch_log = [w \in Workers |-> <<>>]
    /\ action_result = [w \in Workers |-> Nothing]
    /\ own_counted = [w \in Workers |-> [succ |-> 0, fail |-> 0]]
    /\ delay_args = <<>>
    /\ delay_result = <<>>
    /\ status_args = <<>>
    /\ status_result = <<>>
    /\ story_args = <<>>
    /\ story_result = <<>>
    /\ like_args = <<>>
    /\ like_i = 0
    /\ like_result = <<>>
    /\ chain_local = [w \in Workers |->
            [successful |-> 0, failed |-> 0, dispatched |-> 0]]
    /\ has_stories = [w \in Workers |-> FALSE]
    /\ dispatched_total = [w \in Workers |-> 0]
    /\ handed = [w \in Workers |-> <<>>]
    /\ lock = [w \in Workers |-> 0]
    /\ gate_pc = [c \in Callers |-> "idle"]
    /\ gate_op = [c \in Callers |-> "acquire"]
    /\ gate_arg = [c \in Callers |-> [u |-> "u1", start |-> 0]]
    /\ gate_log = <<>>

\* one InstagramAutomation running one account the way _worker_process
\* drives it, with stop / pause / resume called from outside
EngineInit ==
    /\ accounts = <<Account("u1", "a")>>
    /\ workers_count = 1
    /\ targets \in TargetLists
    /\ action_chain \in Chains
    /\ between_actions = DefaultBetweenActions
    /\ texts = SomeTexts /\ like_dialog = <<>>
    /\ mgr_running = TRUE /\ mgr_paused = FALSE
    /\ account_chunks = distribute_accounts(accounts, workers_count)
    /\ run_pc = [r \in Workers |-> IF r = 1 THEN "gather" ELSE "none"]
    /\ WorkerStarted

EngineNext ==
    \/ WorkerStep(1)
    \/ EngineStop(1)
    \/ EnginePause(1)
    \/ EngineResume(1)

EngineSpec == EngineInit /\ [][EngineNext]_vars


\* ------------------------------------------------ chain runs, all types
\* settings['count'] of a like_posts / view_stories step
MaxCount == 2
Counts(t) == IF t \in {"like_posts", "view_stories"} THEN 1..MaxCount ELSE {1}

\* enabled steps of every action type, and one disabled step
FullStepKinds ==
    {s \in {Step(t, TRUE, c) : t \in AllTypes, c \in 1..MaxCount} :
        s.count \in Counts(s.type)}
    \cup {Step("view_stories", FALSE, 1)}
FullChains == SeqsUpTo(FullStepKinds, MaxChain)

\* action_delays['between_actions'] as shipped, and with one bound missing
DelayConfigs == {DefaultBetweenActions, <<5>>}

\* the texts are read by the reply_stories and send_dm steps only; for a
\* chain without such a step an empty list is not distinguished
ChainTexts ==
    {tx \in TextConfigs :
        /\ tx.story_replies = <<>> =>
              \E i \in 1..Len(action_chain) : action_chain[i].type = "reply_stories"
        /\ tx.direct_messages = <<>> =>
              \E i \in 1..Len(action_chain) : action_chain[i].type = "send_dm"}

\* one InstagramAutomation running one account on one target, left alone
ChainInit ==
    /\ accounts = <<Account("u1", "a")>>
    /\ workers_count = 1
    /\ targets = <<"t1">>
    /\ action_chain \in FullChains
    /\ between_actions \in DelayConfigs
    /\ texts \in ChainTexts /\ like_dialog = <<>>
    /\ mgr_running = TRUE /\ mgr_paused = FALSE
    /\ account_chunks = distribute_accounts(accounts, workers_count)
    /\ run_pc = [r \in Workers |-> IF r = 1 THEN "gather" ELSE "none"]
    /\ WorkerStarted

ChainNext == WorkerStep(1)

ChainSpec == ChainInit /\ [][ChainNext]_vars
\* --------------------------------------------------- MultiWorkerManager
\* the workers whose tasks the r-th run of the manager created
run_workers(r) ==
    {w \in Workers : (r - 1) * workers_count < w /\ w <= r * workers_count}

\* start_automation(config, status_callback), as the r-th call on the
\* manager: it tests nothing, sets the flags, starts a thread and returns.
\* (Each run takes workers_count worker slots of the model: calls are
\* counted up to the number of runs that fit into MaxWorkers.)
start_automation(r) ==
    /\ run_pc[r] = "none"
    /\ \A q \in Workers : q < r => run_pc[q] # "none"
    /\ r * workers_count <= MaxWorkers
    /\ mgr_running' = TRUE
    /\ mgr_paused' = FALSE
    /\ run_pc' = [run_pc EXCEPT ![r] = "thread"]
    /\ UNCHANGED <<account_chunks, engineVars, active_sessions, cfgVars,
                   leafVars, gateVars>>

\* the chunks known so far, with those of the r-th run put at the slots of
\* its workers
run_chunks(chunks, r, new) ==
    LET n == IF Len(chunks) > r * workers_count THEN Len(chunks)
             ELSE r * workers_count
    IN  [w \in 1..n |->
            IF w \in run_workers(r) THEN new[w - (r - 1) * workers_count]
            ELSE IF w <= Len(chunks) THEN chunks[w]
            ELSE <<>>]

\* _run_automation_async in the thread of the r-th run, up to the gather:
\* the accounts are distributed and one _worker_process task is created per
\* non-empty chunk
RunAsync(r) ==
    /\ run_pc[r] = "thread"
    /\ account_chunks' =
          run_chunks(account_chunks, r, distribute_accounts(accounts, workers_count))
    /\ pc' = [w \in Workers |->
                IF w \in run_workers(r) /\ Len(account_chunks'[w]) > 0
                THEN "w_start" ELSE pc[w]]
    /\ run_pc' = [run_pc EXCEPT ![r] = "gather"]
    /\ UNCHANGED <<mgr_running, mgr_paused, ret, tgt_idx, flagVars, stats,
                   acctVars, chainVars, dispatched_total, handed,
                   active_sessions, cfgVars, leafVars, gateVars>>

\* the first call of start_automation on the manager
StartAutomation == start_automation(1)

\* await asyncio.gather(*tasks, return_exceptions=True) returns -- with the
\* mutation that returns as soon as one worker has finished
RunEnd_first(r) ==
    /\ run_pc[r] = "gather"
    /\ \E w \in run_workers(r) : pc[w] = "w_done"
    /\ run_pc' = [run_pc EXCEPT ![r] = "closed"]
    /\ UNCHANGED <<mgr_running, mgr_paused, account_chunks, engineVars,
                   active_sessions, cfgVars, leafVars, gateVars>>

\* await asyncio.gather(*tasks, return_exceptions=True) returns when every
\* worker task of the run is done; the run's thread ends (loop.close())
RunEnd(r) ==
    /\ run_pc[r] = "gather"
    /\ \A w \in run_workers(r) : pc[w] \in {"none", "w_done"}
    /\ run_pc' = [run_pc EXCEPT ![r] = "closed"]
    /\ UNCHANGED <<mgr_running, mgr_paused, account_chunks, engineVars,
                   active_sessions, cfgVars, leafVars, gateVars>>

\* stop_automation(): self.running = False; self.paused = False
StopAutomation ==
    /\ mgr_running' = FALSE
    /\ mgr_paused' = FALSE
    /\ UNCHANGED <<account_chunks, run_pc, engineVars, active_sessions, cfgVars, leafVars, gateVars>>

\* pause_automation(): self.paused = True
PauseAutomation ==
    /\ mgr_paused' = TRUE
    /\ UNCHANGED <<mgr_running, account_chunks, run_pc, engineVars, active_sessions, cfgVars, leafVars, gateVars>>

\* resume_automation(): self.paused = False
ResumeAutomation ==
    /\ mgr_paused' = FALSE
    /\ UNCHANGED <<mgr_running, account_chunks, run_pc, engineVars, active_sessions, cfgVars, leafVars, gateVars>>

\* The pool runs use short target lists and a chain of one enabled delay step:
\* what a step does to the page plays no part in the coordination of the
\* workers.
PoolTargetLists == {s \in TargetLists : 1 <= Len(s) /\ Len(s) <= MaxPoolTargets}
PoolChains ==
    {c \in Chains : Len(c) = 1 /\ c[1] = Step("delay", TRUE, 1)}

Init ==
    /\ accounts \in AccountLists
    /\ workers_count \in 1..MaxWorkers
    /\ targets \in PoolTargetLists
    /\ action_chain \in PoolChains
    /\ between_actions = DefaultBetweenActions
    /\ texts = SomeTexts /\ like_dialog = <<>>
    /\ ManagerConstructed
    /\ Constructed

\* a manager on which start_automation is called once
Next ==
    \/ StartAutomation
    \/ RunAsync(1)
    \/ \E w \in Workers : WorkerStep(w)
    \/ RunEnd(1)
    \/ StopAutomation
    \/ PauseAutomation
    \/ ResumeAutomation

Spec == Init /\ [][Next]_vars


\* ------------------------------------------- start_automation called again
\* start_automation called once more, while the run started before is in
\* progress or after it has ended
StartAgain == start_automation(2)

\* a manager with one account and one worker per run, on which
\* start_automation may be called a second time
RestartInit ==
    /\ accounts = <<Account("u1", "a")>>
    /\ workers_count = 1
    /\ targets \in PoolTargetLists
    /\ action_chain \in PoolChains
    /\ between_actions = DefaultBetweenActions
    /\ texts = SomeTexts /\ like_dialog = <<>>
    /\ ManagerConstructed
    /\ Constructed

RestartNext ==
    \/ StartAutomation
    \/ StartAgain
    \/ \E r \in Workers : RunAsync(r)
    \/ \E w \in Workers : WorkerStep(w)
    \/ \E r \in Workers : RunEnd(r)
    \/ StopAutomation
    \/ PauseAutomation
    \/ ResumeAutomation

RestartSpec == RestartInit /\ [][RestartNext]_vars

\* --------------------------------------------- ChainBuilderWidget (gui.py)
\* The chain being authored is the action_chain later handed to the run.
MaxAuthorLen == 3
\* calls of add_like_stories_action waiting in their dialog at a time
MaxDialogs == 1
\* length of a chain read from a file
MaxSaved == 1

\* everything but the chain and the dialogs of the builder
nonChainVars == <<accounts, workers_count, targets, between_actions, texts, leafVars,
                  mgrVars, engineVars, active_sessions, gateVars>>

\* the steps a chain file can hold: steps as the builder writes them, and
\* the same steps without a name
PlainStepKinds ==
    {s \in {Step(t, e, c) : t \in ActionTypes, e \in BOOLEAN, c \in 1..MaxCount} :
        s.count \in IF s.type = "like_stories" THEN 1..MaxCount ELSE Counts(s.type)}
AuthorStepKinds ==
    PlainStepKinds
    \cup {BuilderStep(s.type, s.enabled, s.count) :
             s \in {k \in PlainStepKinds : k.type # "delay"}}
    \cup {BuilderStep("delay", e, delay) : e \in BOOLEAN, delay \in DialogDelays}
SavedChains == SeqsUpTo(AuthorStepKinds, MaxSaved)

\* add_action: self.chain.append(action)
add_action(chain, action) == Append(chain, action)

\* add_follow_action, add_reply_stories_action, add_send_dm_action: a step
\* without settings is appended
AddPlainAction(type) ==
    /\ Len(action_chain) < MaxAuthorLen
    /\ action_chain' = add_action(action_chain, BuilderStep(type, TRUE, 1))
    /\ UNCHANGED <<nonChainVars, like_dialog>>

AddFollow == AddPlainAction("follow")
AddReplyStories == AddPlainAction("reply_stories")
AddSendDm == AddPlainAction("send_dm")

\* add_like_posts_action, add_view_stories_action: the dialog was confirmed
\* with a count (a cancelled dialog changes nothing)
AddCountedAction(type) ==
    /\ Len(action_chain) < MaxAuthorLen
    /\ \E count \in 1..MaxCount :
         action_chain' = add_action(action_chain, BuilderStep(type, TRUE, count))
    /\ UNCHANGED <<nonChainVars, like_dialog>>

AddLikePosts == AddCountedAction("like_posts")
AddViewStories == AddCountedAction("view_stories")

\* add_delay_action: the dialog was confirmed with a delay, which goes into
\* the name of the step (a cancelled dialog changes nothing)
AddDelay ==
    /\ Len(action_chain) < MaxAuthorLen
    /\ \E delay \in DialogDelays :
         action_chain' = add_action(action_chain, BuilderStep("delay", TRUE, delay))
    /\ UNCHANGED <<nonChainVars, like_dialog>>

\* add_like_stories_action: the largest count over the enabled view_stories
\* steps of the chain (0 when there is none)
RECURSIVE view_stories_count(_)
view_stories_count(chain) ==
    IF chain = <<>> THEN 0
    ELSE LET rest == view_stories_count(SubSeq(chain, 1, Len(chain) - 1))
             action == chain[Len(chain)]
         IN  IF action.type = "view_stories" /\ action.enabled
             THEN (IF action.count > rest THEN action.count ELSE rest)
             ELSE rest

\* add_like_stories_action: refused with a count above the view_stories_count
\* read before the dialog was opened
like_stories_accepted(read_count, count) == count <= read_count

\* add_like_stories_action up to wait_window(dialog): view_stories_count is
\* computed from the chain; without an enabled view_stories step the call
\* returns, otherwise the dialog is opened
AddLikeStories ==
    /\ Len(like_dialog) < MaxDialogs
    /\ like_dialog' =
          IF view_stories_count(action_chain) = 0 THEN like_dialog
          ELSE Append(like_dialog, view_stories_count(action_chain))
    /\ UNCHANGED <<nonChainVars, action_chain>>

\* add_like_stories_action after wait_window(dialog) returned: a cancelled
\* dialog changes nothing, a confirmed count is compared with the
\* view_stories_count read before the dialog
LikeStoriesDialog ==
    /\ like_dialog # <<>>
    /\ like_dialog' = SubSeq(like_dialog, 1, Len(like_dialog) - 1)
    /\ \/ UNCHANGED action_chain
       \/ /\ Len(action_chain) < MaxAuthorLen
          /\ \E count \in 1..MaxCount :
            action_chain' =
               IF like_stories_accepted(like_dialog[Len(like_dialog)], count)
               THEN add_action(action_chain, BuilderStep("like_stories", TRUE, count))
               ELSE action_chain
    /\ UNCHANGED nonChainVars

\* toggle_action(index, enabled)
ToggleAction ==
    /\ \E index \in 1..Len(action_chain), enabled \in BOOLEAN :
         action_chain' = [action_chain EXCEPT ![index].enabled = enabled]
    /\ UNCHANGED <<nonChainVars, like_dialog>>

\* remove_action(index): self.chain.pop(index)
RemoveAction ==
    /\ \E index \in 1..Len(action_chain) :
         action_chain' = [i \in 1..(Len(action_chain) - 1) |->
                            IF i < index THEN action_chain[i]
                            ELSE action_chain[i + 1]]
    /\ UNCHANGED <<nonChainVars, like_dialog>>

\* move_action(index, direction): swap with the neighbour, inside the chain
MoveAction ==
    /\ \E index \in 1..Len(action_chain), direction \in {-1, 1} :
         LET new_index == index + direction IN
         action_chain' =
            IF 1 <= new_index /\ new_index <= Len(action_chain)
            THEN [action_chain EXCEPT ![index] = action_chain[new_index],
                                      ![new_index] = action_chain[index]]
            ELSE action_chain
    /\ UNCHANGED <<nonChainVars, like_dialog>>

\* clear_chain, confirmed: self.chain.clear()
ClearChain ==
    /\ action_chain' = <<>>
    /\ UNCHANGED <<nonChainVars, like_dialog>>

\* load_chain with a file chosen: self.chain = json.load(f); a file that
\* cannot be read leaves the chain
LoadChain ==
    /\ action_chain' \in SavedChains \cup {action_chain}
    /\ UNCHANGED <<nonChainVars, like_dialog>>

\* a new widget: load_chain_from_data read data/action_chain.json, or found
\* no such file and starts with the empty chain
AuthorInit ==
    /\ accounts = <<>> /\ workers_count = 1 /\ targets = <<>>
    /\ action_chain \in SavedChains
    /\ between_actions = DefaultBetweenActions
    /\ texts = SomeTexts /\ like_dialog = <<>>
    /\ ManagerConstructed
    /\ Constructed

AuthorNext ==
    \/ AddFollow
    \/ AddLikePosts
    \/ AddViewStories
    \/ AddLikeStories
    \/ LikeStoriesDialog
    \/ AddReplyStories
    \/ AddSendDm
    \/ AddDelay
    \/ ToggleAction
    \/ RemoveAction
    \/ MoveAction
    \/ ClearChain
    \/ LoadChain

AuthorSpec == AuthorInit /\ [][AuthorNext]_vars

\* ------------------------------------------------- _distribute_accounts
\* account lists and worker counts the partition is computed for
MaxDistAccounts == 4
MaxDistWorkers == 3

DistInit ==
    /\ accounts \in SeqsUpTo(Accounts, MaxDistAccounts)
    /\ workers_count \in 1..MaxDistWorkers
    /\ targets = <<>> /\ action_chain = <<>>
    /\ between_actions = DefaultBetweenActions
    /\ texts = SomeTexts /\ like_dialog = <<>>
    /\ ManagerConstructed
    /\ Constructed

\* account_chunks = self._distribute_accounts(accounts, workers_count)
Distribute ==
    /\ account_chunks = <<>>
    /\ account_chunks' = distribute_accounts(accounts, workers_count)
    /\ UNCHANGED <<cfgVars, leafVars, mgr_running, mgr_paused, run_pc, engineVars, active_sessions,
                   gateVars>>

DistNext == Distribute

DistSpec == DistInit /\ [][DistNext]_vars


\* ----------------------------------------------- calculate_action_delay
\* Durations are counted in quarters of a second.
Second == 4

\* bounds of the configured range, in seconds
MaxDelay == 2

Max(a, b) == IF a > b THEN a ELSE b

\* random.uniform(a, b): the values between the two bounds (in either
\* order), sampled every half second
uniform(a, b) ==
    {2 * k : k \in (2 * Min(a, b))..(2 * Max(a, b))}

\* random.uniform(-2, 3), sampled every quarter second
jitter_values == (-2 * Second)..(3 * Second)

\* important_actions = ['follow', 'send_dm', 'reply_stories']
important_actions == {"follow", "send_dm", "reply_stories"}

\* return max(delay, 1) -- with the mutation that returns the delay as it is
delay_floor_none(delay) == delay
delay_floor(delay) == Max(delay, Second)

\* calculate_action_delay with the two random draws it makes: base from the
\* configured range and the jitter added at the end
calculate_action_delay(action_type, was_successful, base, jitter) ==
    LET d1 == IF action_type \in important_actions THEN (base * 3) \div 2 ELSE base
        d2 == IF ~was_successful THEN d1 * 2 ELSE d1
    IN  delay_floor(d2 + jitter)

\* the ranges [min, max] of action_delays['between_actions']
DelayRanges == {<<lo, hi>> : lo \in 0..MaxDelay, hi \in 0..MaxDelay}

\* an engine with a configured range, calculate_action_delay not yet called
DelayInit ==
    /\ accounts = <<>> /\ workers_count = 1 /\ targets = <<>> /\ action_chain = <<>>
    /\ between_actions \in DelayRanges
    /\ texts = SomeTexts /\ like_dialog = <<>>
    /\ ManagerConstructed
    /\ Constructed

\* delay = await self.calculate_action_delay(action_type, was_successful)
CalculateDelay ==
    /\ delay_result = <<>>
    /\ \E action_type \in AllTypes, was_successful \in BOOLEAN,
          base \in uniform(between_actions[1], between_actions[2]),
          jitter \in jitter_values :
         /\ delay_args' = [action_type |-> action_type,
                           was_successful |-> was_successful,
                           base |-> base, jitter |-> jitter]
         /\ delay_result' =
              <<calculate_action_delay(action_type, was_successful, base, jitter)>>
    /\ UNCHANGED <<cfgVars, statusVars, storyVars, likeVars, mgrVars, engineVars, active_sessions, gateVars>>

DelayNext == CalculateDelay

DelaySpec == DelayInit /\ [][DelayNext]_vars

\* ------------------------------------------------------------ view_stories
\* the counts view_stories is called with (its default is 3)
MaxStoryCount == 3

\* an engine on a loaded profile page, view_stories not yet called
StoryInit ==
    /\ accounts = <<>> /\ workers_count = 1 /\ targets = <<>> /\ action_chain = <<>>
    /\ between_actions = DefaultBetweenActions
    /\ texts = SomeTexts /\ like_dialog = <<>>
    /\ ManagerConstructed
    /\ Constructed

\* view_stories(page, target, account_username, count) is called on a page
ViewStories ==
    /\ story_args = <<>>
    /\ \E count \in 1..MaxStoryCount :
         \E p \in StoryPages(count) :
            story_args' = [count |-> count, page |-> p]
    /\ UNCHANGED <<cfgVars, story_result, delayVars, statusVars, likeVars, mgrVars,
                   engineVars, active_sessions, gateVars>>

\* stories_viewed += 1 and the two counters of self.stats, for one frame
ViewFrame ==
    /\ story_args # <<>> /\ story_result = <<>>
    /\ stories_viewed[1] < view_stories(story_args.count, story_args.page).viewed
    /\ stories_viewed' = [stories_viewed EXCEPT ![1] = @ + 1]
    /\ stats' = [stats EXCEPT ![1] = Bump(@, 1, 0, 1)]
    /\ UNCHANGED <<cfgVars, leafVars, mgrVars, pc, ret, tgt_idx, flagVars, acctVars,
                   step_idx, nav_attempt, profile_loaded, recovery_success, blocked, chain_local,
                   has_stories, stories_liked, stepObs, dispatched_total, handed,
                   active_sessions, gateVars>>

\* view_stories returns
ViewStoriesReturn ==
    /\ story_args # <<>> /\ story_result = <<>>
    /\ stories_viewed[1] = view_stories(story_args.count, story_args.page).viewed
    /\ story_result' = <<view_stories(story_args.count, story_args.page)>>
    /\ UNCHANGED <<cfgVars, story_args, delayVars, statusVars, likeVars, mgrVars,
                   engineVars, active_sessions, gateVars>>

StoryNext == ViewStories \/ ViewFrame \/ ViewStoriesReturn

StorySpec == StoryInit /\ [][StoryNext]_vars

\* ------------------------------------------------------- like_recent_posts
\* the post links a profile page shows
MaxPosts == 3
PostLinks == SeqsUpTo(PostKinds, MaxPosts)

\* an engine on a loaded profile page, like_recent_posts not yet called
LikeInit ==
    /\ accounts = <<>> /\ workers_count = 1 /\ targets = <<>> /\ action_chain = <<>>
    /\ between_actions = DefaultBetweenActions
    /\ texts = SomeTexts /\ like_dialog = <<>>
    /\ ManagerConstructed
    /\ Constructed

\* like_recent_posts(page, target, account_username, count) is called on a page
LikeRecentPosts ==
    /\ like_args = <<>>
    /\ \E count \in 1..MaxCount, post_links \in PostLinks, fault \in BOOLEAN :
         like_args' = [count |-> count, post_links |-> post_links, fault |-> fault]
    /\ UNCHANGED <<cfgVars, like_i, like_result, delayVars, statusVars, storyVars,
                   mgrVars, engineVars, active_sessions, gateVars>>

\* one pass of the loop over the posts: a like adds one successful action,
\* the except of the loop body one failed action, a skipped post nothing
LikePost ==
    /\ like_args # <<>> /\ like_result = <<>>
    /\ LET r == like_recent_posts(like_args.count, like_args.post_links,
                                  like_args.fault)
       IN  /\ like_i < Len(r.posts)
           /\ like_i' = like_i + 1
           /\ stats' = [stats EXCEPT ![1] =
                 CASE r.posts[like_i + 1] = "liked" -> Bump(@, 1, 0, 1)
                   [] r.posts[like_i + 1] = "failed" -> Bump(@, 0, 1, 1)
                   [] OTHER -> @]
    /\ UNCHANGED <<cfgVars, like_args, like_result, delayVars, statusVars, storyVars,
                   mgrVars, pc, ret, tgt_idx, flagVars, acctVars, chainVars,
                   dispatched_total, handed, active_sessions, gateVars>>

\* like_recent_posts returns
LikeRecentPostsReturn ==
    /\ like_args # <<>> /\ like_result = <<>>
    /\ LET r == like_recent_posts(like_args.count, like_args.post_links,
                                  like_args.fault)
       IN  /\ like_i = Len(r.posts)
           /\ like_result' = <<r>>
    /\ UNCHANGED <<cfgVars, like_args, like_i, delayVars, statusVars, storyVars,
                   mgrVars, engineVars, active_sessions, gateVars>>

LikeNext == LikeRecentPosts \/ LikePost \/ LikeRecentPostsReturn

LikeSpec == LikeInit /\ [][LikeNext]_vars
\* ------------------------------------------------------ gate properties
\* the lease map after the i-th completed SessionManager call
GateAfter(i) ==
    IF i < Len(gate_log) THEN gate_log[i + 1].before ELSE active_sessions[1]

\* no release_session(u) completed strictly between calls i and j
NoReleaseBetween(i, j, u) ==
    \A k \in (i + 1)..(j - 1) : ~(gate_log[k].op = "release" /\ gate_log[k].u = u)

\* C2: acquire_session(u) returns True and records a lease for u exactly
\* when u has no lease; otherwise it returns False and leaves the lease map
\* (u's existing record included) unchanged; so between two successful
\* acquires of one username there is always a release: at most one lease
\* per username is outstanding.
C2_AcquireIffFree ==
    \A i \in 1..Len(gate_log) :
        LET e == gate_log[i] IN
        e.op = "acquire" =>
            /\ e.result = (e.before[e.u] = NoLease)
            /\ e.result => GateAfter(i) = [e.before EXCEPT ![e.u] = {e.by}]
            /\ ~e.result => GateAfter(i) = e.before
            /\ \A j \in (i + 1)..Len(gate_log) :
                   (e.result /\ gate_log[j].op = "acquire" /\ gate_log[j].u = e.u
                      /\ gate_log[j].result) => ~NoReleaseBetween(i, j, e.u)

C2_Witness ==
    /\ Len(gate_log) >= 2
    /\ gate_log[1].op = "acquire" /\ gate_log[1].result
    /\ gate_log[2].op = "acquire" /\ gate_log[2].u = gate_log[1].u
    /\ ~gate_log[2].result
    /\ active_sessions[1][gate_log[1].u] = {gate_log[1].by}

\* calls i < j overlapped: call j was invoked before call i completed
Overlap(i, j) == gate_log[j].start < i

\* calls i < j are two acquire_session calls of different callers for one
\* username that overlapped, with no release of that username in between
ConcurrentAcquires(i, j) ==
    LET a == gate_log[i]
        b == gate_log[j] IN
    /\ i < j /\ Overlap(i, j)
    /\ a.op = "acquire" /\ b.op = "acquire" /\ a.u = b.u /\ a.by # b.by
    /\ NoReleaseBetween(i, j, a.u)

\* C3 as stated: of two concurrent acquire_session calls for one username,
\* with no release in between, exactly one returns True and the other False.
C3_OneTrueOneFalse ==
    \A i, j \in 1..Len(gate_log) :
        ConcurrentAcquires(i, j) => (gate_log[i].result # gate_log[j].result)

\* C3 (amended): two concurrent acquire_session calls for one username, with
\* no release in between, never both return True: the call that takes the
\* lock second returns False, and the one that takes it first returns True
\* exactly when the username has no lease at that moment (for a username
\* that is already leased both return False).
C3_ConcurrentAcquire ==
    \A i, j \in 1..Len(gate_log) :
        ConcurrentAcquires(i, j) =>
            /\ ~gate_log[j].result
            /\ gate_log[i].result = (gate_log[i].before[gate_log[i].u] = NoLease)

C3_Witness ==
    /\ Len(gate_log) >= 2
    /\ gate_log[1].op = "acquire" /\ gate_log[2].op = "acquire"
    /\ gate_log[1].u = gate_log[2].u /\ gate_log[1].by # gate_log[2].by
    /\ gate_log[2].start = 0
    /\ gate_log[1].result /\ ~gate_log[2].result

\* C4: release_session(u) removes u's lease and nothing else, never raises,
\* and leaves the map unchanged when u has no lease (so a second release
\* changes nothing); an acquire that directly follows a release of the same
\* username returns True.
C4_ReleaseIdempotent ==
    \A i \in 1..Len(gate_log) :
        LET e == gate_log[i] IN
        e.op = "release" =>
            /\ e.result
            /\ GateAfter(i) = [e.before EXCEPT ![e.u] = NoLease]
            /\ e.before[e.u] = NoLease => GateAfter(i) = e.before
            /\ (i < Len(gate_log) /\ gate_log[i + 1].op = "release"
                  /\ gate_log[i + 1].u = e.u) => GateAfter(i + 1) = GateAfter(i)
            /\ (i < Len(gate_log) /\ gate_log[i + 1].op = "acquire"
                  /\ gate_log[i + 1].u = e.u) => gate_log[i + 1].result

C4_Witness ==
    /\ Len(gate_log) = 3
    /\ gate_log[1].op = "acquire" /\ gate_log[1].result
    /\ gate_log[2].op = "release" /\ gate_log[2].u = gate_log[1].u
    /\ gate_log[3].op = "acquire" /\ gate_log[3].u = gate_log[1].u
    /\ gate_log[3].result

\* a release of a username that holds no lease has completed twice in a row
C4_NoLeaseReleaseSeen ==
    /\ Len(gate_log) >= 2
    /\ gate_log[1].op = "release" /\ gate_log[2].op = "release"
    /\ gate_log[2].u = gate_log[1].u

\* ---------------------------------------------------- engine properties
\* where worker w is, or where it continues after the safe_sleep it is in
At(w) == IF pc[w] \in {"sleep", "sleep_paused"} THEN ret[w] ELSE pc[w]

\* execute_action_chain of worker w is past its validation of the chain
InChain(w) ==
    At(w) \in {"navigate", "nav_done", "inspect", "status_checked", "step_check",
               "step_paused", "executor", "executor_count", "action_end",
               "profile_update",
               "block_check", "block_found", "block_clear", "step_except",
               "recover_nav", "recovered"}

\* worker w is between a successful create_context and the end of the
\* matching close_context
InSession(w) ==
    /\ context[w]
    /\ \/ At(w) \in {"create_page", "login_done", "tgt_check", "tgt_paused"}
       \/ InChain(w)
       \/ pc[w] = "finally"

\* run_account_automation of worker w has returned
Returned(w) == pc[w] = "acct_return"

\* a step is handed to execute_single_action / execute_action_chain is called
Dispatches(w) == dispatched_total'[w] > dispatched_total[w]
StartsTarget(w) == Len(chain_calls'[w]) > Len(chain_calls[w])

\* C1: no two workers of one MultiWorkerManager run hold an open browser
\* session for the same account username at the same time.
C1_OneSessionPerAccount ==
    \A w1, w2 \in Workers :
        (w1 # w2 /\ InSession(w1) /\ InSession(w2))
            => account_username(w1) # account_username(w2)

\* C5: when run_account_automation returns after create_context succeeded,
\* the account's session lease is no longer held.
C5_LeaseReleasedOnReturn ==
    \A w \in Workers :
        (Returned(w) /\ context[w])
            => active_sessions[w][account_username(w)] = NoLease

\* worker w has been started and has not finished
Active(w) == pc[w] \notin {"none", "w_done"}

\* a worker task of the manager is started and not done
RunActive == \E w \in Workers : Active(w)

\* C6: once stop_automation() has been called during a run, no worker
\* dispatches a further action step and none starts a further target.
C6_StopReachesWorkers ==
    [][ (~mgr_running /\ RunActive)
          => \A w \in Workers : ~Dispatches(w) /\ ~StartsTarget(w) ]_vars

\* C7: once InstagramAutomation.stop() has been raised, no further step is
\* dispatched and no further target is started; when run_account_automation
\* then returns, total_actions equals the number of steps dispatched and the
\* session lease is released.
C7_EngineStop ==
    [][ \A w \in Workers : (InUse(w) /\ ~auto_running[w])
          => /\ ~Dispatches(w)
             /\ ~StartsTarget(w)
             /\ (pc[w] = "finally" /\ Returned(w)' /\ context[w])
                  => /\ stats'[w].total_actions = dispatched_total'[w]
                     /\ active_sessions'[w][account_username(w)] = NoLease ]_vars

\* C8: while the manager is paused (pause_automation() called, neither
\* resume_automation() nor stop_automation() since), no worker starts a new
\* action step or a new target.
C8_PauseHoldsWorkers ==
    [][ mgr_paused => \A w \in Workers : ~Dispatches(w) /\ ~StartsTarget(w) ]_vars

\* EngineSpec with the scheduling of the event loop: a worker task that can
\* take a step eventually takes one.  A poll of the paused flag that finds
\* it set ('while self.paused: await asyncio.sleep(..)') changes no variable,
\* so a worker spinning in a pause wait shows as stuttering.
EngineFairSpec == EngineSpec /\ WF_vars(WorkerStep(1))

\* C9: if stop is signalled while the engine is paused and no resume
\* follows, run_account_automation eventually returns.
C9_StopWhilePaused ==
    (InSession(1) /\ auto_paused[1] /\ ~auto_running[1])
        ~> (Returned(1) \/ ~auto_paused[1])

\* the targets for which the 'working' status callback was made in the
\* current account run of worker w, in order
tried_targets(w) ==
    LET made == SelectSeq(status_log[w],
                   LAMBDA c : c.status = "working" /\ Len(c.label) = 2)
    IN  [i \in 1..Len(made) |-> made[i].label[2]]

\* C10: a failure of one target (the chain raising, or navigation failing on
\* every attempt) does not end the account run.  Whenever a chain run ends,
\* by returning or by raising, the target loop goes on behind that target;
\* every target reached is announced by its status callback and, when the
\* callback returns, execute_action_chain is invoked once for it; and if
\* the running flag is still true when the target loop is left, every
\* target of the shuffled list was reached, in its order, each chain call
\* was made for a target of the list, and the account run completes
\* normally.  (A status callback that itself raises is counted as an error
\* of its target, which then has no chain run.)
C10_EveryTargetTried ==
    /\ [](\A w \in Workers :
            (pc[w] \in {"finally", "acct_return"} /\ login_success[w]
                /\ auto_running[w])
               => /\ shuffled_targets[w] \in Shuffles(targets)
                  /\ tried_targets(w) = shuffled_targets[w]
                  /\ Len(chain_calls[w]) <= Len(shuffled_targets[w])
                  /\ Len(chain_calls[w]) = Len(shuffled_targets[w])
                        => chain_calls[w] = shuffled_targets[w]
                  /\ stats[w].accounts_processed = 1)
    /\ [][ \A w \in Workers :
             /\ (InChain(w) /\ ~InChain(w)')
                   => /\ At(w)' = "tgt_check"
                      /\ tgt_idx'[w] = tgt_idx[w] + 1
                      /\ chain_calls'[w] = chain_calls[w]
             /\ (pc[w] \in {"tgt_check", "tgt_paused"}
                   /\ status_log'[w] # status_log[w])
                   => LET target == shuffled_targets[w][tgt_idx[w]] IN
                      /\ tried_targets(w)' = Append(tried_targets(w), target)
                      /\ \/ chain_calls'[w] = Append(chain_calls[w], target)
                         \/ /\ chain_calls'[w] = chain_calls[w]
                            /\ stats'[w] = RecordError(stats[w])
                            /\ tgt_idx'[w] = tgt_idx[w] + 1
                            /\ pc'[w] = "tgt_check"
             /\ chain_calls'[w] # chain_calls[w]
                   => \/ pc[w] \in {"tgt_check", "tgt_paused"}
                      \/ chain_calls'[w] = <<>> ]_vars

\* both targets had their chain run although one of the chain runs raised
C10_Witness ==
    /\ Returned(1) /\ login_success[1] /\ auto_running[1]
    /\ Len(targets) = 2
    /\ stats[1].errors >= 1
    /\ chain_calls[1] = shuffled_targets[1]

\* ------------------------------------------------- account-level failures
\* worker w has left its account loop
LoopLeft(w) == pc[w] \in {"w_cleanup", "w_idle", "w_done"}

\* C11: a failed account (context, page or login failure, or an exception
\* leaving run_account_automation) ends neither its worker's account loop nor
\* another worker: a worker that leaves its loop while the manager is still
\* running has passed every account of its chunk to run_account_automation.
C11_AccountFailureAbsorbed ==
    \A w \in Workers :
        (LoopLeft(w) /\ mgr_running) => acct_idx[w] = Len(chunk(w)) + 1

C11_Witness ==
    /\ pc[1] = "w_done" /\ mgr_running
    /\ Len(chunk(1)) = 2
    /\ stats[1].errors = 1
    /\ stats[1].accounts_processed = 1

\* ------------------------------------------------------------ chain runs
\* no chain run of worker w is in progress: execute_action_chain has not
\* been called or has returned
BetweenChains(w) == ~InChain(w)

\* C12: after any chain run total_actions has grown by exactly the number of
\* steps dispatched (every step counted once, whatever its type or result).
C12_TotalCountsDispatched ==
    \A w \in Workers :
        BetweenChains(w) => stats[w].total_actions = dispatched_total[w]

\* C13: with an empty chain, or one without an enabled step,
\* execute_action_chain navigates nowhere, dispatches nothing and changes no
\* counter.
C13_EmptyChainNoOp ==
    /\ [](Len(enabled_actions) = 0 =>
            \A w \in Workers :
                /\ ~InChain(w)
                /\ nav_attempt[w] = 0
                /\ dispatched_total[w] = 0)
    /\ [][ Len(enabled_actions) = 0 =>
             \A w \in Workers : StartsTarget(w) => stats'[w] = stats[w] ]_vars

C13_Witness ==
    /\ Returned(1)
    /\ Len(action_chain) = 2 /\ Len(enabled_actions) = 0
    /\ Len(targets) = 2 /\ chain_calls[1] = shuffled_targets[1]

\* C14: when check_profile_status reported blocked, execute_action_chain
\* returns at once: no step is dispatched for the target and total_actions,
\* successful_actions and failed_actions stay as they were.
C14_BlockedProfileSkipped ==
    [][ \A w \in Workers :
          blocked[w] =>
             /\ pc[w] = "status_checked"
             /\ chain_local[w].dispatched = 0
             /\ pc'[w] # pc[w] =>
                   /\ ~InChain(w)'
                   /\ dispatched_total'[w] = dispatched_total[w]
                   /\ stats'[w] = stats[w] ]_vars

C14_Witness ==
    /\ blocked[1] /\ pc[1] = "status_checked"
    /\ Len(enabled_actions) = 2
    /\ tgt_idx[1] = 2

\* C15: when the scan after a step finds a block indicator, the chain run
\* ends there: no later step is dispatched, the counters keep the steps
\* already executed, and the per-target statistics entry is recorded with
\* the chain-local counts.
C15_BlockEndsChain ==
    [][ \A w \in Workers :
          (pc[w] = "block_found" /\ pc'[w] # pc[w]) =>
             /\ ~InChain(w)'
             /\ dispatched_total'[w] = dispatched_total[w]
             /\ stats'[w] = stats[w]
             /\ Len(target_stats'[w]) = Len(target_stats[w]) + 1
             /\ Last(target_stats'[w]).target = shuffled_targets[w][tgt_idx[w]]
             /\ Last(target_stats'[w]).successful_actions = chain_local[w].successful
             /\ Last(target_stats'[w]).failed_actions = chain_local[w].failed
             /\ chain_local[w].successful + chain_local[w].failed
                   = chain_local[w].dispatched ]_vars

C15_Witness ==
    /\ pc[1] = "block_found"
    /\ step_idx[1] = 1 /\ Len(enabled_actions) = 2
    /\ chain_local[1].dispatched = 1

\* C16: during a chain run the number of story likes performed on the target
\* never exceeds the number of story frames viewed on it earlier in the run.
C16_LikesWithinViews ==
    \A w \in Workers : stories_liked[w] <= stories_viewed[w]

\* --------------------------------------------------------- chain authoring
\* index of the last enabled view_stories step before position i, or 0
RECURSIVE preceding_view(_, _)
preceding_view(chain, i) ==
    IF i <= 1 THEN 0
    ELSE IF chain[i - 1].type = "view_stories" /\ chain[i - 1].enabled THEN i - 1
    ELSE preceding_view(chain, i - 1)

\* C17: after any sequence of authoring operations every like_stories step
\* has an enabled view_stories step before it, and its count is not greater
\* than the count of the nearest such step.
C17_LikeCountWithinView ==
    \A i \in 1..Len(action_chain) :
        action_chain[i].type = "like_stories" =>
            /\ preceding_view(action_chain, i) # 0
            /\ action_chain[i].count <=
                  action_chain[preceding_view(action_chain, i)].count

\* ------------------------------------------------------------- navigation

\* C18: navigate_to_profile makes at most MaxRetries load attempts, is over
\* as soon as an attempt loaded the profile, and otherwise returns False
\* after the last attempt; the chain goes past the navigation, and dispatches
\* a step, only when the profile was loaded.
C18_NavigateBounded ==
    \A w \in Workers :
        /\ nav_attempt[w] <= MaxRetries
        /\ (At(w) = "navigate") => ~profile_loaded[w]
        /\ (At(w) = "nav_done" /\ ~profile_loaded[w]) => nav_attempt[w] = MaxRetries
        /\ (InChain(w) /\ At(w) \notin {"navigate", "nav_done"}) => profile_loaded[w]
        /\ chain_local[w].dispatched > 0 => profile_loaded[w]

C18_Witness ==
    /\ pc[1] = "nav_done" /\ ~profile_loaded[1]
    /\ nav_attempt[1] = MaxRetries
    /\ Len(enabled_actions) = 2
    /\ dispatched_total[1] = 0

\* ----------------------------------------------------------- distribution
\* the chunks one after the other
RECURSIVE Concat(_)
Concat(chunks) ==
    IF chunks = <<>> THEN <<>>
    ELSE Concat(SubSeq(chunks, 1, Len(chunks) - 1)) \o chunks[Len(chunks)]

\* C19: _distribute_accounts returns exactly workers_count chunks, contiguous
\* slices whose concatenation is the account list, with sizes that differ by
\* at most 1 and never grow from one chunk to the next.
C19_DistributeAccounts ==
    account_chunks # <<>> =>
        /\ Len(account_chunks) = workers_count
        /\ Concat(account_chunks) = accounts
        /\ \A i, j \in 1..Len(account_chunks) :
              /\ Len(account_chunks[i]) - Len(account_chunks[j]) <= 1
              /\ i < j => Len(account_chunks[i]) >= Len(account_chunks[j])

C19_Witness ==
    /\ account_chunks # <<>>
    /\ Len(accounts) = 4 /\ workers_count = 3
    /\ Len(account_chunks[1]) = 2 /\ Len(account_chunks[3]) = 1

\* ------------------------------------------------------ unavailable lease
\* C20: when create_context yields no context because the account's lease is
\* taken, run_account_automation counts no failed action and records no
\* error.
C20_LeaseUnavailableIsSkip ==
    [][ \A w \in Workers :
          ( /\ pc[w] = "create_context"
            /\ ~acquire_result(active_sessions[w], account_username(w))
            /\ pc'[w] # pc[w] )
          => /\ stats'[w].failed_actions = stats[w].failed_actions
             /\ stats'[w].errors = stats[w].errors ]_vars


\* ---------------------------------------------------------------- C21
\* the step the single worker is processing
CurrentStep == enabled_actions[step_idx[1]]

\* C21: a step of an unknown type yields success = false with a reason, is
\* counted as exactly one failed action (shared and chain-local counters),
\* raises nothing into the chain runner, and the chain goes on: when no
\* block indicator is found the runner moves to the next enabled step.
C21_UnknownTypeFails ==
    [][ /\ (pc[1] = "action_end" /\ pc'[1] # "action_end"
            /\ CurrentStep.type \notin ActionTypes)
           => /\ action_error(CurrentStep, has_stories[1], texts) # "none"
              /\ stats'[1] = Bump(stats[1], 0, 1, 1)
              /\ chain_local'[1] = [chain_local[1] EXCEPT !.failed = @ + 1]
              /\ pc'[1] \in {"block_check", "sleep", "step_except"}
              /\ pc'[1] = "step_except" => delay_raises(between_actions)
              /\ step_raised'[1] \in {"none", "delay"}
        /\ (pc[1] = "block_clear" /\ pc'[1] # "block_clear"
            /\ CurrentStep.type \notin ActionTypes)
           => /\ pc'[1] = "step_check"
              /\ step_idx'[1] = step_idx[1] + 1
              /\ stats'[1] = stats[1] ]_vars

\* an unknown step was processed and the step after it was dispatched
C21_Witness ==
    /\ Len(dispatch_log[1]) = 2
    /\ action_chain[dispatch_log[1][1]].type \notin ActionTypes
    /\ chain_local[1].failed >= 1

\* ---------------------------------------------------------------- C22
\* C22: a follow step on a page that shows the already-following indicator
\* and no follow control clicks nothing, and the follow steps of one chain
\* run on a target click at most once.
C22_FollowIdempotent ==
    /\ \A i \in 1..Len(follow_clicks[1]) : follow_clicks[1][i] # FollowingText
    /\ Len(follow_clicks[1]) <= 1

\* ---------------------------------------------------------------- C23
\* worker w is inside the try block of run_account_automation, or in its
\* finally block before the 'idle' callback
InRun(w) ==
    At(w) \in {"create_context", "new_context", "create_page", "login_done",
               "tgt_check", "tgt_paused", "finally"} \/ InChain(w)

\* the 'idle' callbacks in a log of status callbacks
idle_callbacks(log) == {i \in 1..Len(log) : log[i] = Callback("idle", <<>>)}

\* C23: in a run of run_account_automation the first status callback is
\* 'working' with the account, made before any target is processed; every
\* chain run is called right after a 'working' callback carrying its
\* target's label; 'idle' is reported only once, as the last callback, when
\* the run returns (after completion, an account-level failure or a stop).
C23_StatusCallbacks ==
    /\ [](\A w \in Workers :
            (InRun(w) \/ Returned(w)) =>
                LET log == status_log[w]
                    u == account_username(w)
                IN  /\ Len(log) >= 1
                    /\ log[1] = Callback("working", <<u>>)
                    /\ Len(log) >= 1 + Len(chain_calls[w])
                    /\ idle_callbacks(log) =
                          (IF Returned(w) THEN {Len(log)} ELSE {}))
    /\ [][ \A w \in Workers :
             StartsTarget(w) =>
                status_log'[w] = Append(status_log[w],
                    Callback("working",
                        <<account_username(w), Last(chain_calls'[w])>>)) ]_vars

\* a run that was stopped after its first of two targets has returned
C23_Witness ==
    /\ Returned(1) /\ ~auto_running[1] /\ login_success[1]
    /\ Len(shuffled_targets[1]) = 2
    /\ Len(chain_calls[1]) = 1
    /\ Last(status_log[1]).status = "idle"

\* ---------------------------------------------------------------- C24
\* C24: whatever the action type, the success flag, the configured range and
\* the random draws, calculate_action_delay returns at least one second.
C24_DelayFloor ==
    delay_result # <<>> => delay_result[1] >= Second

\* the range [0, 0], a successful step, the lowest jitter: the sum is negative
C24_Witness ==
    /\ delay_result # <<>>
    /\ between_actions = <<0, 0>>
    /\ delay_args.was_successful
    /\ delay_args.base + delay_args.jitter < 0
    /\ delay_result[1] = Second

\* ---------------------------------------------------------------- C25
\* C25: within one chain run the steps are dispatched in chain order, only
\* enabled steps are dispatched, and no step is dispatched twice: the chain
\* positions of the dispatched steps are strictly increasing.
C25_ChainOrder ==
    \A w \in Workers :
        LET log == dispatch_log[w] IN
        \A i \in 1..Len(log) :
            /\ log[i] \in 1..Len(action_chain)
            /\ action_chain[log[i]].enabled
            /\ i > 1 => log[i - 1] < log[i]

\* both steps of a chain were dispatched, the first before the second
C25_Witness ==
    /\ dispatch_log[1] = <<1, 2>>
    /\ pc[1] = "block_clear"

\* ---------------------------------------------------------------- C26
\* C26: a step that raised a fault is followed by one recovery attempt whose
\* re-navigation makes at most RecoveryRetries load attempts; after a
\* successful recovery the runner goes on with the next enabled step, after
\* a failed one it leaves the step loop without raising; a step that only
\* reported success = false starts no recovery.
C26_RecoveryOnFault ==
    [][ /\ (pc[1] \in {"action_end", "profile_update"}
            /\ pc'[1] \notin {"action_end", "profile_update"})
           => (step_raised'[1] # "none" <=> pc'[1] = "step_except")
        /\ At(1)' \in {"recover_nav", "recovered"}
           => nav_attempt'[1] <= RecoveryRetries
        /\ (pc[1] = "recovered" /\ pc'[1] # "recovered")
           => IF recovery_success[1]
              THEN /\ pc'[1] = "step_check"
                   /\ step_idx'[1] = step_idx[1] + 1
                   /\ dispatch_log'[1] = dispatch_log[1]
              ELSE /\ At(1)' = "tgt_check"
                   /\ Len(target_stats'[1]) = Len(target_stats[1]) + 1
                   /\ stats'[1] = stats[1] ]_vars

\* ---------------------------------------------------------------- C27
\* C27: whatever gather_profile_info met, once the profile was found not
\* blocked execute_action_chain enters the step loop; it neither returns
\* early nor raises for the target, and no counter changes.
C27_GatherNeverAborts ==
    [][ (pc[1] = "status_checked" /\ ~blocked[1] /\ pc'[1] # "status_checked")
           => /\ pc'[1] = "step_check"
              /\ stats'[1] = stats[1] ]_vars

\* ---------------------------------------------------------------- C28
\* C28: when a chain run returns to the target loop, the inter-target delay
\* is entered exactly when the target was not at the last position of the
\* shuffled order.
C28_InterTargetDelay ==
    [][ (tgt_idx'[1] = tgt_idx[1] + 1 /\ stats'[1].errors = stats[1].errors)
           => ((pc'[1] = "sleep" /\ ret'[1] = "tgt_check")
                 <=> tgt_idx[1] < Len(shuffled_targets[1])) ]_vars

\* ---------------------------------------------------------------- C29
\* every worker that was started has finished
RunFinished ==
    /\ \A w \in Workers : pc[w] \in {"none", "w_done"}
    /\ \E w \in Workers : pc[w] = "w_done"

\* C29: once all workers of a run have finished, is_running() (the
\* manager's running flag) is False, also when stop_automation was never
\* called.
C29_NotRunningAfterFinish ==
    RunFinished => ~mgr_running

\* ---------------------------------------------------------------- C30
\* C30: in every state of an engine total_actions is the sum of
\* successful_actions and failed_actions, and no counter ever decreases.
C30_TotalIsSum ==
    [][ /\ stats'[1].total_actions =
              stats'[1].successful_actions + stats'[1].failed_actions
        /\ stats'[1].total_actions >= stats[1].total_actions
        /\ stats'[1].successful_actions >= stats[1].successful_actions
        /\ stats'[1].failed_actions >= stats[1].failed_actions ]_vars

\* ---------------------------------------------------------------- C31
\* the phrases check_profile_status looks for, in the order of the claim:
\* page not available, private account, user not found, temporarily
\* unavailable -- and the flag each one stands for
PhraseFlag == <<"not_found", "private", "not_found", "suspended">>

\* the k-th phrase occurs on the page
phrase_present(k, page_content) ==
    CASE k = 1 -> "Sorry, this page isn't available" \in page_content
      [] k = 2 -> page_content \cap {"This Account is Private",
                                     "This account is private"} # {}
      [] k = 3 -> "User not found" \in page_content
      [] k = 4 -> \E s \in page_content : lower(s) = "temporarily unavailable"

\* the flags a status has set
flags_set(status) == {f \in {"not_found", "private", "suspended"} : status[f]}

\* C31: on a page whose content was read, blocked is true exactly when at
\* least one of the four phrases is present, and then exactly one of
\* not_found / private / suspended is set: the flag of the first phrase
\* present in the order page not available, private account, user not found,
\* temporarily unavailable; with no phrase present no flag is set.  (When the
\* content cannot be read the status is blocked with a reason.)
C31_FirstPhraseDecides ==
    status_result # <<>> =>
        LET status == status_result[1]
            page_content == status_args.page_content
            present == {k \in 1..4 : phrase_present(k, page_content)}
        IN  IF status_args.fault
            THEN status.blocked /\ status.reason # "none"
            ELSE /\ status.blocked <=> present # {}
                 /\ present = {} => flags_set(status) = {}
                 /\ present # {} =>
                       \E first \in present :
                          /\ \A k \in present : first <= k
                          /\ flags_set(status) = {PhraseFlag[first]}

\* a page showing the page-not-available, the private-account and the
\* temporarily-unavailable phrase is reported as not found only
C31_Witness ==
    /\ status_result # <<>>
    /\ ~status_args.fault
    /\ status_args.page_content =
          {"Sorry, this page isn't available", "This account is private",
           "Temporarily Unavailable"}
    /\ status_result[1].blocked /\ status_result[1].not_found
    /\ ~status_result[1].private /\ ~status_result[1].suspended

\* ---------------------------------------------------------------- C32
\* C32: whenever view_stories opened the story viewer, the viewer is closed
\* before it returns, on every path (a fault while waiting for the viewer to
\* load or while advancing included); it views at most count frames and
\* reports success exactly when at least one frame was viewed.
C32_ViewerClosed ==
    story_result # <<>> =>
        LET r == story_result[1] IN
        /\ r.opened => r.closed
        /\ r.viewed <= story_args.count
        /\ r.success <=> r.viewed > 0

\* ---------------------------------------------------------------- C33
\* the post was liked before: it shows the Unlike control
already_liked(post) == liked_button \in post.controls

\* C33: like_recent_posts(count) opens the first min(count, number of post
\* links) posts and no more, goes through all of them whatever fails on one
\* of them, skips a post that was liked before without counting a failure
\* (when no call raises on it), and reports success exactly when at least
\* one like was made.
C33_LikeRecentPosts ==
    like_result # <<>> =>
        LET r == like_result[1]
            a == like_args
        IN  /\ Len(r.posts) <= Min(a.count, Len(a.post_links))
            /\ ~a.fault => Len(r.posts) = Min(a.count, Len(a.post_links))
            /\ \A i \in 1..Len(r.posts) :
                  (already_liked(a.post_links[i]) /\ a.post_links[i].fault = "none")
                     => r.posts[i] = "skipped"
            /\ r.liked = Cardinality({i \in 1..Len(r.posts) : r.posts[i] = "liked"})
            /\ r.success <=> r.liked > 0

\* ---------------------------------------------------------------- C34
\* worker w is in the step loop of execute_action_chain
InStepLoop(w) ==
    At(w) \in {"step_check", "step_paused", "executor", "executor_count", "action_end",
               "profile_update", "block_check", "block_found", "block_clear",
               "step_except", "recover_nav", "recovered"}

\* the names of the steps dispatched in the current chain run of worker w
executed_steps(w) ==
    [i \in 1..Len(dispatch_log[w]) |-> step_name(action_chain[dispatch_log[w][i]])]

\* C34: a chain run that reached the step loop records exactly one
\* per-target statistics entry when it ends (normally, by a detected block
\* or by stop), no entry is recorded anywhere else, and the entry's list of
\* step names is the list of the steps executed in that run.
C34_TargetEntry ==
    [][ \A w \in Workers :
          /\ (InStepLoop(w) /\ ~InStepLoop(w)')
                => /\ Len(target_stats'[w]) = Len(target_stats[w]) + 1
                   /\ Last(target_stats'[w]).target = shuffled_targets[w][tgt_idx[w]]
                   /\ Last(target_stats'[w]).actions_performed = executed_steps(w)
          /\ Len(target_stats'[w]) > Len(target_stats[w])
                => (InStepLoop(w) /\ ~InStepLoop(w)') ]_vars

\* ---------------------------------------------------------------- C35
\* s is an initial part of t
IsPrefix(s, t) == Len(s) <= Len(t) /\ s = SubSeq(t, 1, Len(s))

\* C35: a run creates a worker exactly for the non-empty chunks; a worker
\* hands the accounts of its chunk to run_account_automation one after the
\* other in list order; and when the run has ended without a stop signal,
\* every worker has finished and every account of the configured list was
\* handed to run_account_automation exactly once.
C35_EveryAccountOnce ==
    \A r \in Workers :
        /\ run_pc[r] \in {"gather", "closed"} =>
              \A w \in run_workers(r) :
                  /\ pc[w] # "none" <=> chunk(w) # <<>>
                  /\ IsPrefix(handed[w], chunk(w))
        /\ run_pc[r] = "closed" =>
              \A w \in run_workers(r) : pc[w] \in {"none", "w_done"}
        /\ (run_pc[r] = "closed" /\ mgr_running) =>
              /\ \A w \in run_workers(r) : handed[w] = chunk(w)
              /\ Concat([w \in 1..workers_count |->
                           handed[(r - 1) * workers_count + w]]) = accounts

\* a run of two workers over two accounts has ended without a stop signal,
\* the first account having failed
C35_Witness ==
    /\ run_pc[1] = "closed" /\ mgr_running
    /\ workers_count = 2 /\ Len(accounts) = 2
    /\ handed[1] = <<accounts[1]>> /\ handed[2] = <<accounts[2]>>
    /\ stats[1].errors = 1

\* ---------------------------------------------------------------- C36
\* C36: in navigate_to_profile every load attempt that is followed by
\* another one (after a fault or after a title that does not match) is
\* followed by the backoff wait first, and the final attempt is followed by
\* no wait when it fails.
C36_BackoffBetweenAttempts ==
    [][ \A w \in Workers :
          /\ (pc[w] = "navigate" /\ nav_attempt'[w] = nav_attempt[w] + 1)
                => (pc'[w] = "sleep" /\ ret'[w] = "navigate")
          /\ (pc[w] = "navigate" /\ pc'[w] # "navigate" /\ ~profile_loaded'[w]
                /\ nav_attempt'[w] = nav_attempt[w])
                => (pc'[w] = "nav_done" /\ nav_attempt[w] = MaxRetries) ]_vars

\* ---------------------------------------------------------------- C37
\* C37: when a chain run leaves the step loop, the chain-local successful
\* count plus the failed count is the number of steps dispatched in the run:
\* every dispatched step was counted in exactly one of the two, whatever
\* raised after its result was recorded.
C37_LocalCountsMatch ==
    [][ \A w \in Workers :
          (InStepLoop(w) /\ ~InStepLoop(w)')
             => /\ chain_local[w].successful + chain_local[w].failed
                      = chain_local[w].dispatched
                /\ Last(target_stats'[w]).successful_actions
                      + Last(target_stats'[w]).failed_actions
                      = Len(dispatch_log[w]) ]_vars

\* ---------------------------------------------------------------- C38
\* C38: at most one run of a manager is in progress at any time: a call of
\* start_automation during a run starts no second set of workers next to
\* those of the run in progress.
C38_OneRunAtATime ==
    \A r1, r2 \in Workers :
        r1 # r2 =>
            /\ ~(run_pc[r1] \in {"thread", "gather"} /\ run_pc[r2] \in {"thread", "gather"})
            /\ \A w1 \in run_workers(r1), w2 \in run_workers(r2) :
                  ~(Active(w1) /\ Active(w2))
====
